---- MODULE Spec2Model ----
(***************************************************************************)
(* A model of nncf's OpenVINO model transformer                            *)
(* (nncf/openvino/graph/model_transformer.py).                             *)
(*                                                                         *)
(* The graph runtime is modelled as a heap of nodes.  A node id is its     *)
(* index in the heap.  Every node keeps the source output of each of its   *)
(* input ports (ins) and, separately, the consumer set of each of its      *)
(* output ports (outs), as the runtime does; ports are numbered from 0.    *)
(* A model (ov.Model) is a record of result, parameter and sink node ids.  *)
(***************************************************************************)
EXTENDS Integers, Sequences, FiniteSets, TLC

(***************************************************************************)
(* Bounds of the model.                                                    *)
(***************************************************************************)
\* the longest layout handed to transform
MaxLayout == 2

(***************************************************************************)
(* Friendly names.  A name is a base string and a list of (tag, port)      *)
(* suffixes, so that "conv1/fq_output_0" is Derive(Name("conv1"),          *)
(* "fq_output", 0) and a graph may already hold a node of that name.       *)
(***************************************************************************)
Name(b) == [b |-> b, t |-> <<>>]

Derive(n, tag, p) == [b |-> n.b, t |-> Append(n.t, <<tag, p>>)]

get_result_node_name(n, p) == Derive(n, "Result", p)

get_parameter_node_name(n, p) == Derive(n, "Parameter", p)

Range(s) == {s[i] : i \in DOMAIN s}

(***************************************************************************)
(* Nodes and the heap.                                                     *)
(***************************************************************************)
NoBodies == <<>>

MkNode(name, type, ins, nout, et, shape, val) ==
    [name |-> name, type |-> type, ins |-> ins,
     outs |-> [k \in 1..nout |-> {}],
     et |-> et, shape |-> shape, val |-> val,
     tnames |-> {}, bodies |-> NoBodies, alive |-> TRUE, pinned |-> FALSE]

\* a destroyed node: its record is dropped, its id is never used again
Tombstone ==
    [name |-> Name(""), type |-> "Dead", ins |-> <<>>, outs |-> <<>>,
     et |-> "f32", shape |-> 0, val |-> 0,
     tnames |-> {}, bodies |-> NoBodies, alive |-> FALSE, pinned |-> FALSE]

\* node.inputs() / node.outputs(): the valid port indexes
InputPorts(h, n) == 0..(Len(h[n].ins) - 1)

OutputPorts(h, n) == 0..(Len(h[n].outs) - 1)

\* input.get_source_output(), node.input_value(i)
SourceOutput(h, in) == h[in[1]].ins[in[2] + 1]

\* output.get_target_inputs()
TargetInputs(h, out) == h[out[1]].outs[out[2] + 1]

\* a mutant: the port is bound to the new output and registered there, but
\* stays registered in the consumer set of its old source
ReplaceKeepOld(h, in, out) ==
    LET h1 == [h EXCEPT ![out[1]].outs[out[2] + 1] = @ \cup {in}]
    IN  [h1 EXCEPT ![in[1]].ins[in[2] + 1] = out]

\* input.replace_source_output(output)
ReplaceSourceOutput(h, in, out) ==
    LET old == SourceOutput(h, in)
        h1 == [h EXCEPT ![old[1]].outs[old[2] + 1] = @ \ {in}]
        h2 == [h1 EXCEPT ![out[1]].outs[out[2] + 1] = @ \cup {in}]
    IN  [h2 EXCEPT ![in[1]].ins[in[2] + 1] = out]

\* a mutant: only one of the inputs is rebound
ReplaceOne(h, inputs, out) ==
    IF inputs = {} THEN h
    ELSE ReplaceSourceOutput(h, CHOOSE x \in inputs : TRUE, out)

RECURSIVE ReplaceAll(_, _, _)
\* for inp in inputs: inp.replace_source_output(out)
ReplaceAll(h, inputs, out) ==
    IF inputs = {} THEN h
    ELSE LET in == CHOOSE x \in inputs : TRUE
         IN  ReplaceAll(ReplaceSourceOutput(h, in, out), inputs \ {in}, out)

\* node construction (opset.*): the new node takes the next id and is
\* registered as a consumer of each of its source outputs
AddNode(h, nd) ==
    LET id == Len(h) + 1
        h1 == Append(h, nd)
    IN  [m \in 1..id |->
            [h1[m] EXCEPT !.outs =
                [p \in 1..Len(h1[m].outs) |->
                    h1[m].outs[p] \cup
                    {<<id, i - 1>> : i \in {j \in 1..Len(nd.ins) : nd.ins[j] = <<m, p - 1>>}}]]]

NewId(h) == Len(h) + 1

(***************************************************************************)
(* Models.                                                                 *)
(***************************************************************************)
\* ov.Model: an instance id, the node lists, and the runtime's cache of the
\* ops found by the last get_ops() (the cache keeps those nodes alive)
MkModel(id, results, params, sinks) ==
    [id |-> id, results |-> results, params |-> params, sinks |-> sinks,
     cache |-> {}, g |-> ""]

NoModel == MkModel(0, <<>>, <<>>, <<>>)

Roots(model) == Range(model.results) \cup Range(model.sinks) \cup Range(model.params)

RECURSIVE Closure(_, _)
\* the nodes S depends on, S included
Closure(h, S) ==
    LET T == S \cup UNION {{h[n].ins[i][1] : i \in DOMAIN h[n].ins} : n \in S}
    IN  IF T = S THEN S ELSE Closure(h, T)

\* model.get_ops(): the results, sinks and parameters and all they depend on
GetOps(h, model) == Closure(h, Roots(model))

\* the nodes held by the transformer's own model are never destroyed
Pinned(h) == {n \in 1..Len(h) : h[n].pinned}

\* what the runtime keeps alive: the working model's nodes, the nodes its
\* cache of ordered ops still holds, the transformer's own model, and
\* everything those depend on.  Every other node is destroyed and leaves
\* the consumer sets it was registered in.
Collect(h, model) ==
    LET keep == Closure(h, {n \in Roots(model) \cup model.cache \cup Pinned(h) : h[n].alive})
    IN  [m \in 1..Len(h) |->
            IF m \notin keep THEN Tombstone
            ELSE [h[m] EXCEPT !.outs =
                    [p \in DOMAIN h[m].outs |-> {c \in h[m].outs[p] : c[1] \in keep}]]]

\* the ov.Model constructor refuses a graph that depends on a Parameter
\* node missing from its parameter list
UndeclaredParameters(h, results, params, sinks) ==
    {n \in Closure(h, Range(results) \cup Range(sinks)) :
        h[n].type = "Parameter" /\ n \notin Range(params)}

\* the ids of a set of nodes in increasing order
RECURSIVE Sorted(_)
Sorted(S) ==
    IF S = {} THEN <<>>
    ELSE LET m == CHOOSE x \in S : \A y \in S : x <= y
         IN  <<m>> \o Sorted(S \ {m})

Index(seq, x) == CHOOSE i \in DOMAIN seq : seq[i] = x

\* a sub-graph held by a conditional node: an instance id and its content
Body(id, g) == [id |-> id, g |-> g]

\* a mutant: a shallow copy, a new model instance over the same nodes
CloneShallow(h, model, nextId) ==
    [heap |-> h, model |-> [model EXCEPT !.id = nextId], nextId |-> nextId + 1]

\* model.clone(): a deep copy of every op of the model under fresh node
\* ids; names, types, values and the bodies' contents are kept, the bodies
\* themselves are fresh instances.  Returns the heap, the clone and the
\* next free instance id.
Clone(h, model, nextId) ==
    LET ops == Sorted(GetOps(h, model))
        base == Len(h)
        new(n) == base + Index(ops, n)
        n_if == {n \in Range(ops) : h[n].bodies # NoBodies}
        ifs == Sorted(n_if)
        copy(n) ==
            [h[n] EXCEPT
                !.ins = [i \in DOMAIN h[n].ins |-> <<new(h[n].ins[i][1]), h[n].ins[i][2]>>],
                !.outs = [p \in DOMAIN h[n].outs |->
                            {<<new(c[1]), c[2]>> : c \in {d \in h[n].outs[p] : d[1] \in Range(ops)}}],
                !.bodies = IF h[n].bodies = NoBodies THEN NoBodies
                           ELSE [k \in DOMAIN h[n].bodies |->
                                    Body(nextId + 2 * Index(ifs, n) + k - 2, h[n].bodies[k].g)],
                !.pinned = FALSE]
        h1 == h \o [k \in 1..Len(ops) |-> copy(ops[k])]
        m1 == [id |-> nextId,
               results |-> [k \in DOMAIN model.results |-> new(model.results[k])],
               params |-> [k \in DOMAIN model.params |-> new(model.params[k])],
               sinks |-> [k \in DOMAIN model.sinks |-> new(model.sinks[k])],
               cache |-> {}, g |-> model.g]
    IN  [heap |-> h1, model |-> m1, nextId |-> nextId + 1 + 2 * Len(ifs)]

(***************************************************************************)
(* Commands.  Every command carries a target point (target_node_name,      *)
(* port_id, type) and the payload of its kind; the fields a kind does not  *)
(* use keep their defaults.                                                *)
(***************************************************************************)
\* a mutant: quantizer insertion is listed before node removal
CommandOrderSwapped ==
    <<"OVQuantizerInsertionCommand", "OVFQNodeRemovingCommand",
      "OVConvertInsertionCommand", "OVBiasCorrectionCommand",
      "OVWeightUpdateCommand", "OVModelExtractionCommand",
      "OVInplaceFnInsertionCommand", "OVOutputInsertionCommand",
      "OVBiasInsertionCommand", "OVMultiplyInsertionCommand",
      "OVUpdateIfBodyCommand", "OVExtractIfBodyCommand">>

\* a mutant: model extraction is listed last, where conditional-body
\* extraction is, and conditional-body extraction in its place
CommandOrderExtractionLast ==
    <<"OVFQNodeRemovingCommand", "OVQuantizerInsertionCommand",
      "OVConvertInsertionCommand", "OVBiasCorrectionCommand",
      "OVWeightUpdateCommand", "OVExtractIfBodyCommand",
      "OVInplaceFnInsertionCommand", "OVOutputInsertionCommand",
      "OVBiasInsertionCommand", "OVMultiplyInsertionCommand",
      "OVUpdateIfBodyCommand", "OVModelExtractionCommand">>

\* the command classes in the order of _command_transformation_ordered_pairs
CommandOrder ==
    <<"OVFQNodeRemovingCommand", "OVQuantizerInsertionCommand",
      "OVConvertInsertionCommand", "OVBiasCorrectionCommand",
      "OVWeightUpdateCommand", "OVModelExtractionCommand",
      "OVInplaceFnInsertionCommand", "OVOutputInsertionCommand",
      "OVBiasInsertionCommand", "OVMultiplyInsertionCommand",
      "OVUpdateIfBodyCommand", "OVExtractIfBodyCommand">>

\* TargetType members: the three the transformer handles and one it does not
PRE == "PRE_LAYER_OPERATION"

POST == "POST_LAYER_OPERATION"

WEIGHTS == "OPERATION_WITH_WEIGHTS"

LAYER == "LAYER"

\* FakeQuantizeParameters / FakeConvertParameters
NoParams == [il |-> 0, ih |-> 0, ol |-> 0, oh |-> 0, levels |-> 0]

Cmd(kind, name, port, type) ==
    [kind |-> kind, name |-> name, port |-> port, type |-> type,
     val |-> 0, n |-> 1, q |-> NoParams,
     inputs |-> <<>>, outputs |-> <<>>,
     dests |-> {}, mname |-> Name(""),
     body |-> Body(0, ""), cond |-> TRUE, fnport |-> 0]

(***************************************************************************)
(* The state an applier works on: the heap, the model it was given, its    *)
(* name_to_node_mapping, and the error it raised ("ok" while none).        *)
(***************************************************************************)
Ok == "ok"

Fail(s, e) == [s EXCEPT !.err = e]

\* the nodes of ops named nm that a dict built in get_ops() order can hold:
\* get_ops() is topologically ordered and the last op of a name wins, so a
\* node that another node of the same name depends on is never the one
Candidates(h, ops, nm) ==
    {n \in ops : /\ h[n].name = nm
                 /\ \A m \in ops \ {n} : h[m].name = nm => n \notin Closure(h, {m})}

RECURSIVE MapsOver(_, _, _)
MapsOver(h, ops, names) ==
    IF names = {} THEN {<<>>}
    ELSE LET nm == CHOOSE x \in names : TRUE
         IN  {(nm :> n) @@ f : n \in Candidates(h, ops, nm),
                               f \in MapsOver(h, ops, names \ {nm})}

\* _get_name_to_node_mapping: {op.get_friendly_name(): op for op in
\* model.get_ops()}.  Only the names in `asked` are ever looked up, so the
\* choice among nodes of one name is enumerated for those names only.
get_name_to_node_mapping(h, model, asked) ==
    LET ops == GetOps(h, model)
        names == {h[n].name : n \in ops}
        rest == [nm \in names \ asked |-> CHOOSE n \in ops : h[n].name = nm]
    IN  {f @@ rest : f \in MapsOver(h, ops, names \cap asked)}

\* the names a batch addresses
Asked(batch) ==
    UNION {{batch[i].name} \cup {x[1] : x \in Range(batch[i].inputs)}
                           \cup {x[1] : x \in Range(batch[i].outputs)}
           : i \in DOMAIN batch}

\* get_ops() refreshes the model's cache of ordered ops; the nodes only the
\* old cache held are destroyed
Refresh(h, model) ==
    LET m1 == [model EXCEPT !.cache = GetOps(h, model)]
    IN  [heap |-> Collect(h, m1), model |-> m1]

\* the states an applier starts from: one per possible mapping
Enter(h, model, batch) ==
    LET r == Refresh(h, model)
    IN  {[heap |-> r.heap, model |-> r.model, map |-> f, err |-> Ok]
            : f \in get_name_to_node_mapping(r.heap, r.model, Asked(batch))}

(***************************************************************************)
(* Node removal.                                                           *)
(***************************************************************************)
\* a mutant: only the consumers of output 0 are rewired
fq_removing_step_first_output(s, t) ==
    IF t.name \notin DOMAIN s.map THEN {Fail(s, "NodeNotFound")}
    ELSE LET node == s.map[t.name]
         IN  IF 0 \notin InputPorts(s.heap, node) THEN {Fail(s, "PortOutOfRange")}
             ELSE {[s EXCEPT
                      !.heap = ReplaceAll(s.heap, TargetInputs(s.heap, <<node, 0>>),
                                          SourceOutput(s.heap, <<node, 0>>)),
                      !.map = [nm \in DOMAIN s.map \ {t.name} |-> s.map[nm]]]}

\* the body of the loop of _apply_fq_nodes_removing_transformation
fq_removing_step(s, t) ==
    IF t.name \notin DOMAIN s.map THEN {Fail(s, "NodeNotFound")}
    ELSE LET node == s.map[t.name]
         IN  IF 0 \notin InputPorts(s.heap, node) THEN {Fail(s, "PortOutOfRange")}
             ELSE LET node_input == SourceOutput(s.heap, <<node, 0>>)
                      targets == UNION {TargetInputs(s.heap, <<node, p>>)
                                            : p \in OutputPorts(s.heap, node)}
                  IN  {[s EXCEPT
                          !.heap = ReplaceAll(s.heap, targets, node_input),
                          !.map = [nm \in DOMAIN s.map \ {t.name} |-> s.map[nm]]]}

(***************************************************************************)
(* Quantizer and converter insertion.                                      *)
(***************************************************************************)
\* np.finfo(np.float16).max
Fp16Max == 65504

\* _convert_to_fp16: clip to the finite range of float16, then cast (the
\* values of the model are integers float16 represents exactly once clipped)
convert_to_fp16(v) ==
    IF v > Fp16Max THEN Fp16Max ELSE IF v < 0 - Fp16Max THEN 0 - Fp16Max ELSE v

\* _create_constant
create_constant(h, value, dtype, name) ==
    AddNode(h, MkNode(name, "Constant", <<>>, 1, dtype, 1, value))

\* _create_fake_quantize: four constants and the FakeQuantize node reading
\* op_output; the heap with the new nodes, the FakeQuantize node last
create_fake_quantize(h, op_output, q, fq_name, to_fp16) ==
    LET dtype == IF to_fp16 THEN "f16" ELSE "f32"
        cv(v) == IF to_fp16 THEN convert_to_fp16(v) ELSE v
        h1 == create_constant(h, cv(q.il), dtype, Derive(fq_name, "input_low", 0))
        h2 == create_constant(h1, cv(q.ih), dtype, Derive(fq_name, "input_high", 0))
        h3 == create_constant(h2, cv(q.ol), dtype, Derive(fq_name, "output_low", 0))
        h4 == create_constant(h3, cv(q.oh), dtype, Derive(fq_name, "output_high", 0))
        id == Len(h)
    IN  AddNode(h4, MkNode(fq_name, "FakeQuantize",
                           <<op_output, <<id + 1, 0>>, <<id + 2, 0>>, <<id + 3, 0>>, <<id + 4, 0>>>>,
                           1, h[op_output[1]].et, h[op_output[1]].shape, q.levels))

\* _create_fake_convert: two constants and the FakeConvert node
create_fake_convert(h, op_output, q, fc_name, to_fp16) ==
    LET dtype == IF to_fp16 THEN "f16" ELSE "f32"
        cv(v) == IF to_fp16 THEN convert_to_fp16(v) ELSE v
        h1 == create_constant(h, cv(q.il), dtype, Derive(fc_name, "scale", 0))
        h2 == create_constant(h1, cv(q.ih), dtype, Derive(fc_name, "shift", 0))
        id == Len(h)
    IN  AddNode(h2, MkNode(fc_name, "FakeConvert",
                           <<op_output, <<id + 1, 0>>, <<id + 2, 0>>>>,
                           1, h[op_output[1]].et, h[op_output[1]].shape, q.levels))

\* the consumers of a source output that are nodes of the given type; the
\* loop over get_target_inputs() keeps the last one of an unordered set
ConsumersOfType(h, out, type) ==
    {c[1] : c \in {d \in TargetInputs(h, out) : h[d[1]].type = type}}

\* a mutant: the sharing check is dropped, every command builds its own node
shared_node_none(h, type, out, kind) == {}

\* "If the nodes share one weight tensor, we should have only one quantizer
\* on that": the nodes of the kind that already consume the source output
shared_node(h, type, out, kind) ==
    IF type = WEIGHTS THEN ConsumersOfType(h, out, kind) ELSE {}

\* _insert_fake_quantize_op
insert_fake_quantize_op(s, t) ==
    IF t.name \notin DOMAIN s.map THEN {Fail(s, "NodeNotFound")}
    ELSE LET target_node == s.map[t.name]
             h == s.heap
         IN  IF t.type \in {PRE, WEIGHTS} THEN
                 IF t.port \notin InputPorts(h, target_node) THEN {Fail(s, "PortOutOfRange")}
                 ELSE LET inp_node == <<target_node, t.port>>
                          input_node_output == SourceOutput(h, inp_node)
                          convert == h[input_node_output[1]].et = "f16"
                          name == IF t.type = WEIGHTS THEN "fq_weights" ELSE "fq_input"
                          fq_name == Derive(t.name, name, t.port)
                          found == shared_node(h, t.type, input_node_output, "FakeQuantize")
                          h1 == create_fake_quantize(h, input_node_output, t.q, fq_name, convert)
                      IN  IF found = {}
                          THEN {[s EXCEPT !.heap = ReplaceSourceOutput(h1, inp_node, <<Len(h1), 0>>)]}
                          ELSE {[s EXCEPT !.heap = ReplaceSourceOutput(h, inp_node, <<fq, 0>>)]
                                    : fq \in found}
             ELSE IF t.type = POST THEN
                 IF t.port \notin OutputPorts(h, target_node) THEN {Fail(s, "PortOutOfRange")}
                 ELSE LET output == <<target_node, t.port>>
                          target_inputs == TargetInputs(h, output)
                          h1 == create_fake_quantize(h, output, t.q,
                                                     Derive(t.name, "fq_output", t.port),
                                                     h[target_node].et = "f16")
                      IN  {[s EXCEPT !.heap = ReplaceAll(h1, target_inputs, <<Len(h1), 0>>)]}
             ELSE {Fail(s, "UnsupportedTargetPoint")}

\* _insert_fake_convert_op
insert_fake_convert_op(s, t) ==
    IF t.name \notin DOMAIN s.map THEN {Fail(s, "NodeNotFound")}
    ELSE LET target_node == s.map[t.name]
             h == s.heap
             name == IF t.type = WEIGHTS THEN "weights" ELSE "input"
         IN  IF t.type \in {PRE, WEIGHTS} THEN
                 IF t.port \notin InputPorts(h, target_node) THEN {Fail(s, "PortOutOfRange")}
                 ELSE LET inp_node == <<target_node, t.port>>
                          input_node_output == SourceOutput(h, inp_node)
                          found == shared_node(h, t.type, input_node_output, "FakeConvert")
                          h1 == create_fake_convert(h, input_node_output, t.q,
                                                    Derive(t.name, "fc_" \o name, t.port),
                                                    h[input_node_output[1]].et = "f16")
                      IN  IF found = {}
                          THEN {[s EXCEPT !.heap = ReplaceSourceOutput(h1, inp_node, <<Len(h1), 0>>)]}
                          ELSE {[s EXCEPT !.heap = ReplaceSourceOutput(h, inp_node, <<fc, 0>>)]
                                    : fc \in found}
             ELSE IF t.type = POST THEN
                 IF t.port \notin OutputPorts(h, target_node) THEN {Fail(s, "PortOutOfRange")}
                 ELSE LET output == <<target_node, t.port>>
                          target_inputs == TargetInputs(h, output)
                          h1 == create_fake_convert(h, output, t.q,
                                                    Derive(t.name, "fc_output", t.port),
                                                    h[target_node].et = "f16")
                      IN  {[s EXCEPT !.heap = ReplaceAll(h1, target_inputs, <<Len(h1), 0>>)]}
             ELSE {Fail(s, "UnsupportedTargetPoint")}

(***************************************************************************)
(* Constant replacement: bias correction and weight update.                *)
(***************************************************************************)
NotFound == <<<<0, 0>>, 0>>

RECURSIVE find_const_last_input(_, _, _)
\* a mutant: the walk follows the last input of each node, not the first
find_const_last_input(h, port, node) ==
    IF h[node].type = "Constant" THEN <<port, node>>
    ELSE IF Len(h[node].ins) = 0 THEN NotFound
    ELSE find_const_last_input(h, <<node, Len(h[node].ins) - 1>>,
                               SourceOutput(h, <<node, Len(h[node].ins) - 1>>)[1])

\* a mutant: only a constant bound to the port itself is found
find_const_direct(h, port, node) ==
    IF h[node].type = "Constant" THEN <<port, node>> ELSE NotFound

RECURSIVE find_const(_, _, _)
\* the queue loop of _set_const_value: from (port, node) follow input 0 of
\* each node until a Constant or a node without inputs; <<port, node>> of
\* the constant found, or NotFound
find_const(h, port, node) ==
    IF h[node].type = "Constant" THEN <<port, node>>
    ELSE IF Len(h[node].ins) = 0 THEN NotFound
    ELSE find_const(h, <<node, 0>>, SourceOutput(h, <<node, 0>>)[1])

\* a mutant: the new constant takes the supplied value's own shape
set_const_value_own_shape(s, node_with_const, const_port_id, value, n) ==
    IF const_port_id \notin InputPorts(s.heap, node_with_const)
    THEN Fail(s, "PortOutOfRange")
    ELSE LET h == s.heap
             port == <<node_with_const, const_port_id>>
             found == find_const(h, port, SourceOutput(h, port)[1])
         IN  IF found = NotFound THEN Fail(s, "ConstantNotFound")
             ELSE LET const_port == found[1]
                      const_node == found[2]
                      h1 == AddNode(h, MkNode(h[const_node].name, "Constant", <<>>, 1,
                                              h[const_node].et, n, value))
                  IN  [s EXCEPT !.heap = ReplaceSourceOutput(h1, const_port, <<Len(h1), 0>>)]

\* a mutant: the port of node_with_const is rebound, not the port that read
\* the constant
set_const_value_at_port(s, node_with_const, const_port_id, value, n) ==
    IF const_port_id \notin InputPorts(s.heap, node_with_const)
    THEN Fail(s, "PortOutOfRange")
    ELSE LET h == s.heap
             port == <<node_with_const, const_port_id>>
             found == find_const(h, port, SourceOutput(h, port)[1])
         IN  IF found = NotFound THEN Fail(s, "ConstantNotFound")
             ELSE LET const_node == found[2]
                      h1 == AddNode(h, MkNode(h[const_node].name, "Constant", <<>>, 1,
                                              h[const_node].et, h[const_node].shape, value))
                  IN  IF n # h[const_node].shape THEN Fail(s, "ValueError")
                      ELSE [s EXCEPT !.heap = ReplaceSourceOutput(h1, port, <<Len(h1), 0>>)]

\* _set_const_value
set_const_value(s, node_with_const, const_port_id, value, n) ==
    IF const_port_id \notin InputPorts(s.heap, node_with_const)
    THEN Fail(s, "PortOutOfRange")
    ELSE LET h == s.heap
             port == <<node_with_const, const_port_id>>
             found == find_const(h, port, SourceOutput(h, port)[1])
         IN  IF found = NotFound THEN Fail(s, "ConstantNotFound")
             ELSE LET const_port == found[1]
                      const_node == found[2]
                      h1 == AddNode(h, MkNode(h[const_node].name, "Constant", <<>>, 1,
                                              h[const_node].et, h[const_node].shape, value))
                  IN  \* np.reshape refuses a value of another size
                      IF n # h[const_node].shape THEN Fail(s, "ValueError")
                      ELSE [s EXCEPT !.heap = ReplaceSourceOutput(h1, const_port, <<Len(h1), 0>>)]

\* a mutant: the first input of the target node itself is taken, whatever
\* consumes its output
bias_correction_step_on_target(s, t) ==
    IF t.name \notin DOMAIN s.map THEN {Fail(s, "NodeNotFound")}
    ELSE {set_const_value(s, s.map[t.name], t.port, t.val, t.n)}

\* the body of the loop of _apply_bias_correction_transformations
bias_correction_step(s, t) ==
    IF t.name \notin DOMAIN s.map THEN {Fail(s, "NodeNotFound")}
    ELSE LET node == s.map[t.name]
             adds == ConsumersOfType(s.heap, <<node, 0>>, "Add")
         IN  IF adds = {} THEN {Fail(s, "MissingRequiredConsumer")}
             ELSE {set_const_value(s, add_node, t.port, t.val, t.n) : add_node \in adds}

\* the body of the loop of _apply_weight_update_transformations
weight_update_step(s, t) ==
    IF t.name \notin DOMAIN s.map THEN {Fail(s, "NodeNotFound")}
    ELSE {set_const_value(s, s.map[t.name], t.port, t.val, t.n)}

(***************************************************************************)
(* Output insertion and in-place operation insertion.                      *)
(***************************************************************************)
\* _update_tensor_name on the output tensors of one node
update_tensor_name(h, node, name) == [h EXCEPT ![node].tnames = @ \cup {name}]

\* ov.Model(results, parameters, sinks): a new model instance, refused when
\* the graph depends on a parameter that is not listed
NewModel(s, id, results, params, sinks) ==
    IF UndeclaredParameters(s.heap, results, params, sinks) # {}
    THEN Fail(s, "UndeclaredParameter")
    ELSE [s EXCEPT !.model = MkModel(id, results, params, sinks)]

RECURSIVE add_results(_, _)
\* the loop of _insert_outputs: one Result per (output, port_id), in order
add_results(h, outputs) ==
    IF outputs = <<>> THEN h
    ELSE LET output == Head(outputs)[1]
             port_id == Head(outputs)[2]
             result_name == get_result_node_name(h[output[1]].name, port_id)
             h1 == AddNode(h, MkNode(result_name, "Result", <<output>>, 1,
                                     h[output[1]].et, h[output[1]].shape, 0))
         IN  add_results(update_tensor_name(h1, Len(h1), result_name), Tail(outputs))

\* a mutant: the model is rebuilt from the new results alone
insert_outputs_drop_old(s, outputs, id) ==
    LET h1 == add_results(s.heap, outputs)
        extra == [k \in 1..Len(outputs) |-> Len(s.heap) + k]
        assign_ops == Sorted({n \in GetOps(s.heap, s.model) : s.heap[n].type = "Assign"})
    IN  NewModel([s EXCEPT !.heap = h1], id, extra, s.model.params, assign_ops)

\* _insert_outputs; id is the instance id of the model it builds
insert_outputs(s, outputs, id) ==
    LET h1 == add_results(s.heap, outputs)
        extra == [k \in 1..Len(outputs) |-> Len(s.heap) + k]
        assign_ops == Sorted({n \in GetOps(s.heap, s.model) : s.heap[n].type = "Assign"})
    IN  NewModel([s EXCEPT !.heap = h1], id,
                 s.model.results \o extra, s.model.params, assign_ops)

\* the body of the loop of _get_extra_model_outputs; the outputs collected
\* so far travel in s.acc
extra_model_outputs_step(s, t) ==
    IF t.name \notin DOMAIN s.map THEN {Fail(s, "NodeNotFound")}
    ELSE LET node == s.map[t.name]
         IN  IF t.type = POST THEN
                 IF t.port \notin OutputPorts(s.heap, node) THEN {Fail(s, "PortOutOfRange")}
                 ELSE {[s EXCEPT !.acc = Append(@, <<<<node, t.port>>, t.port>>)]}
             ELSE IF t.type \in {PRE, WEIGHTS} THEN
                 IF t.port \notin InputPorts(s.heap, node) THEN {Fail(s, "PortOutOfRange")}
                 ELSE LET output == SourceOutput(s.heap, <<node, t.port>>)
                      IN  {[s EXCEPT !.acc = Append(@, <<output, output[2]>>)]}
             ELSE {Fail(s, "UnsupportedTargetPoint")}

WithAcc(S) ==
    {[heap |-> s.heap, model |-> s.model, map |-> s.map, err |-> s.err, acc |-> <<>>] : s \in S}

WithoutAcc(S) ==
    {[heap |-> s.heap, model |-> s.model, map |-> s.map, err |-> s.err] : s \in S}

\* the caller's inplace_op_fn(node, port): one new node that reads output
\* port of node
inplace_op_fn(h, node, port) ==
    AddNode(h, MkNode(Derive(h[node].name, "inplace", port), "InplaceOp",
                      <<<<node, port>>>>, 1, h[node].et, h[node].shape, 0))

\* _insert_inplace_operation
insert_inplace_operation(s, t) ==
    IF t.name \notin DOMAIN s.map THEN {Fail(s, "NodeNotFound")}
    ELSE LET target_node == s.map[t.name]
             h == s.heap
             done(h1) == IF t.fnport \notin OutputPorts(h1, Len(h1))
                         THEN Fail([s EXCEPT !.heap = h1], "PortOutOfRange")
                         ELSE [s EXCEPT !.heap = h1,
                                        !.acc = Append(@, <<<<Len(h1), t.fnport>>, t.fnport>>)]
         IN  IF t.type = POST THEN
                 IF t.port \notin OutputPorts(h, target_node) THEN {Fail(s, "PortOutOfRange")}
                 ELSE {done(inplace_op_fn(h, target_node, t.port))}
             ELSE IF t.type \in {PRE, WEIGHTS} THEN
                 IF t.port \notin InputPorts(h, target_node) THEN {Fail(s, "PortOutOfRange")}
                 ELSE LET output == SourceOutput(h, <<target_node, t.port>>)
                      IN  {done(inplace_op_fn(h, output[1], output[2]))}
             ELSE {Fail(s, "UnsupportedTargetPoint")}

(***************************************************************************)
(* Model extraction.                                                       *)
(***************************************************************************)
RECURSIVE extraction_inputs_all_consumers(_, _)
\* a mutant: every consumer of the boundary port's source is rebound to the
\* new parameter
extraction_inputs_all_consumers(s, input_ids) ==
    IF input_ids = <<>> \/ s.err # Ok THEN s
    ELSE LET input_name == Head(input_ids)[1]
             input_port_id == Head(input_ids)[2]
             h == s.heap
         IN  IF input_name \notin DOMAIN s.map THEN Fail(s, "NodeNotFound")
             ELSE LET input_node == s.map[input_name]
                  IN  IF input_name \in {h[n].name : n \in Range(s.model.params)}
                      THEN extraction_inputs_all_consumers(
                                [s EXCEPT !.acc = Append(@, input_node)], Tail(input_ids))
                      ELSE IF input_port_id \notin InputPorts(h, input_node)
                      THEN Fail(s, "PortOutOfRange")
                      ELSE LET input_port == <<input_node, input_port_id>>
                               input_node_output == SourceOutput(h, input_port)
                               parameter_name == get_parameter_node_name(input_name, input_port_id)
                               h1 == AddNode(h, MkNode(parameter_name, "Parameter", <<>>, 1,
                                                       h[input_node_output[1]].et,
                                                       h[input_node_output[1]].shape, 0))
                               new_param == Len(h1)
                               h2 == ReplaceAll(h1, TargetInputs(h, input_node_output),
                                                <<new_param, 0>>)
                               h3 == update_tensor_name(h2, new_param, parameter_name)
                           IN  extraction_inputs_all_consumers(
                                    [s EXCEPT !.heap = h3, !.acc = Append(@, new_param)],
                                    Tail(input_ids))

RECURSIVE extraction_inputs(_, _)
\* the loop over transformation.input_ids; the parameters collected so far
\* travel in s.acc
extraction_inputs(s, input_ids) ==
    IF input_ids = <<>> \/ s.err # Ok THEN s
    ELSE LET input_name == Head(input_ids)[1]
             input_port_id == Head(input_ids)[2]
             h == s.heap
         IN  IF input_name \notin DOMAIN s.map THEN Fail(s, "NodeNotFound")
             ELSE LET input_node == s.map[input_name]
                  IN  IF input_name \in {h[n].name : n \in Range(s.model.params)}
                      THEN extraction_inputs([s EXCEPT !.acc = Append(@, input_node)],
                                             Tail(input_ids))
                      ELSE IF input_port_id \notin InputPorts(h, input_node)
                      THEN Fail(s, "PortOutOfRange")
                      ELSE LET input_port == <<input_node, input_port_id>>
                               input_node_output == SourceOutput(h, input_port)
                               parameter_name == get_parameter_node_name(input_name, input_port_id)
                               h1 == AddNode(h, MkNode(parameter_name, "Parameter", <<>>, 1,
                                                       h[input_node_output[1]].et,
                                                       h[input_node_output[1]].shape, 0))
                               new_param == Len(h1)
                               h2 == ReplaceSourceOutput(h1, input_port, <<new_param, 0>>)
                               h3 == update_tensor_name(h2, new_param, parameter_name)
                           IN  extraction_inputs([s EXCEPT !.heap = h3,
                                                           !.acc = Append(@, new_param)],
                                                 Tail(input_ids))

RECURSIVE extraction_outputs(_, _)
\* the loop over transformation.output_ids; the results collected so far
\* travel in s.res
extraction_outputs(s, output_ids) ==
    IF output_ids = <<>> \/ s.err # Ok THEN s
    ELSE LET output_name == Head(output_ids)[1]
             output_port_id == Head(output_ids)[2]
             h == s.heap
         IN  IF output_name \notin DOMAIN s.map THEN Fail(s, "NodeNotFound")
             ELSE LET output_node == s.map[output_name]
                  IN  IF output_port_id \notin OutputPorts(h, output_node)
                      THEN Fail(s, "PortOutOfRange")
                      ELSE LET result_name == get_result_node_name(output_name, output_port_id)
                               h1 == AddNode(h, MkNode(result_name, "Result",
                                                       <<<<output_node, output_port_id>>>>, 1,
                                                       h[output_node].et, h[output_node].shape, 0))
                               h2 == update_tensor_name(h1, Len(h1), result_name)
                           IN  extraction_outputs([s EXCEPT !.heap = h2,
                                                            !.res = Append(@, Len(h1))],
                                                  Tail(output_ids))

\* a mutant: the first command of the batch is the one honoured
extraction_command_first(batch) == batch[1]

\* transformation = transformations[-1]
extraction_command(batch) == batch[Len(batch)]

\* a mutant: the results collected are used even when there are none
extraction_results_collected(res, model) == res

\* if not results: results = model.get_results()
extraction_results(res, model) == IF res = <<>> THEN model.results ELSE res

\* _apply_model_extraction_transformation; id is the instance id of the
\* model it builds
apply_model_extraction_transformation(h, model, batch, id) ==
    LET t == extraction_command(batch)
        run(s0) ==
            LET s1 == extraction_inputs(
                        [heap |-> s0.heap, model |-> s0.model, map |-> s0.map,
                         err |-> s0.err, acc |-> <<>>, res |-> <<>>], t.inputs)
                s2 == extraction_outputs(s1, t.outputs)
                results == extraction_results(s2.res, s2.model)
                s3 == [heap |-> s2.heap, model |-> s2.model, map |-> s2.map, err |-> s2.err]
            IN  IF s2.err # Ok THEN s3 ELSE NewModel(s3, id, results, s2.acc, <<>>)
    IN  {run(s0) : s0 \in Enter(h, model, <<t>>)}

(***************************************************************************)
(* Bias insertion and multiply (scale) insertion.                          *)
(***************************************************************************)
\* the body of the loop of _apply_bias_insertion_transformations
bias_insertion_step(s, t) ==
    IF t.name \notin DOMAIN s.map THEN {Fail(s, "NodeNotFound")}
    ELSE LET node == s.map[t.name]
             h == s.heap
         IN  IF t.port \notin OutputPorts(h, node) THEN {Fail(s, "PortOutOfRange")}
             ELSE LET node_output_port == <<node, t.port>>
                      node_output_source_ports == TargetInputs(h, node_output_port)
                      bias_node_name == Derive(t.name, "nncf_null_bias_", 0)
                      h1 == AddNode(h, MkNode(Derive(bias_node_name, "bias_value", 0),
                                              "Constant", <<>>, 1, h[node].et, t.n, t.val))
                      h2 == AddNode(h1, MkNode(bias_node_name, "Add",
                                               <<node_output_port, <<Len(h1), 0>>>>, 1,
                                               h[node].et, h[node].shape, 0))
                  IN  {[s EXCEPT !.heap = ReplaceAll(h2, node_output_source_ports,
                                                     <<Len(h2), 0>>)]}

\* a mutant: every consumer of the output is rewired, listed or not
destination_ports_all(h, out, names) == TargetInputs(h, out)

\* the consumers of the output whose node name is a destination node name
destination_ports(h, out, names) ==
    {p \in TargetInputs(h, out) : h[p[1]].name \in names}

\* the body of the loop of _apply_multiply_insertion_transformations
multiply_insertion_step(s, t) ==
    IF t.name \notin DOMAIN s.map THEN {Fail(s, "NodeNotFound")}
    ELSE LET node == s.map[t.name]
             h == s.heap
         IN  IF t.port \notin OutputPorts(h, node) THEN {Fail(s, "PortOutOfRange")}
             ELSE LET node_output_port == <<node, t.port>>
                      dests == destination_ports(h, node_output_port, t.dests)
                      \* all() of no port is true
                      scale_dtype == IF \A p \in dests : h[SourceOutput(h, p)[1]].et = "f16"
                                     THEN "f16" ELSE "f32"
                      h1 == create_constant(h, t.val, scale_dtype, Derive(t.mname, "scale", 0))
                      h2 == AddNode(h1, MkNode(t.mname, "Multiply",
                                               <<node_output_port, <<Len(h1), 0>>>>, 1,
                                               h[node].et, h[node].shape, 0))
                  IN  \* opset.multiply refuses arguments of different element types
                      IF h[node].et # scale_dtype
                      THEN {Fail([s EXCEPT !.heap = h1], "TypeMismatch")}
                      ELSE {[s EXCEPT !.heap = ReplaceAll(h2, dests, <<Len(h2), 0>>)]}

(***************************************************************************)
(* Conditional bodies.                                                     *)
(***************************************************************************)
\* a mutant: the sub-graph is installed as the other body of the node
update_if_body_step_other_branch(s, t) ==
    IF t.name \notin DOMAIN s.map THEN {Fail(s, "NodeNotFound")}
    ELSE LET node == s.map[t.name]
         IN  IF s.heap[node].type # "If" THEN {Fail(s, "AttributeError")}
             ELSE IF t.port \notin {0, 1} THEN {Fail(s, "PortOutOfRange")}
             ELSE {[s EXCEPT !.heap[node].bodies[2 - t.port] = t.body]}

\* the body of the loop of _apply_update_if_body_transformations:
\* node.set_function(port_id, subgraph_model)
update_if_body_step(s, t) ==
    IF t.name \notin DOMAIN s.map THEN {Fail(s, "NodeNotFound")}
    ELSE LET node == s.map[t.name]
         IN  IF s.heap[node].type # "If" THEN {Fail(s, "AttributeError")}
             ELSE IF t.port \notin {0, 1} THEN {Fail(s, "PortOutOfRange")}
             ELSE {[s EXCEPT !.heap[node].bodies[t.port + 1] = t.body]}

\* the model a conditional node hands out for one of its bodies
BodyModel(b) == [MkModel(b.id, <<>>, <<>>, <<>>) EXCEPT !.g = b.g]

\* _apply_extract_if_body_transformation
apply_extract_if_body_transformation(h, model, batch) ==
    LET t == batch[Len(batch)]
        run(s) ==
            IF t.name \notin DOMAIN s.map THEN Fail(s, "NodeNotFound")
            ELSE LET ov_node == s.map[t.name]
                 IN  IF s.heap[ov_node].type # "If" THEN Fail(s, "AttributeError")
                     ELSE IF t.cond
                          THEN [s EXCEPT !.model = BodyModel(s.heap[ov_node].bodies[1])]
                          ELSE [s EXCEPT !.model = BodyModel(s.heap[ov_node].bodies[2])]
    IN  {run(s) : s \in Enter(h, model, <<t>>)}

(***************************************************************************)
(* The appliers that loop over their batch.                                *)
(***************************************************************************)
\* the loop body of the applier of the command's class
loop_body(s, t) ==
    CASE t.kind = "OVFQNodeRemovingCommand" -> fq_removing_step(s, t)
      [] t.kind = "OVQuantizerInsertionCommand" -> insert_fake_quantize_op(s, t)
      [] t.kind = "OVConvertInsertionCommand" -> insert_fake_convert_op(s, t)
      [] t.kind = "OVBiasCorrectionCommand" -> bias_correction_step(s, t)
      [] t.kind = "OVWeightUpdateCommand" -> weight_update_step(s, t)
      [] t.kind = "OVInplaceFnInsertionCommand" -> insert_inplace_operation(s, t)
      [] t.kind = "OVOutputInsertionCommand" -> extra_model_outputs_step(s, t)
      [] t.kind = "OVBiasInsertionCommand" -> bias_insertion_step(s, t)
      [] t.kind = "OVMultiplyInsertionCommand" -> multiply_insertion_step(s, t)
      [] t.kind = "OVUpdateIfBodyCommand" -> update_if_body_step(s, t)

RECURSIVE FoldCmds(_, _)
\* for transformation in transformations: <loop body>, stopping at a raise
FoldCmds(S, batch) ==
    IF batch = <<>> THEN S
    ELSE FoldCmds(UNION {IF s.err = Ok THEN loop_body(s, Head(batch)) ELSE {s} : s \in S},
                  Tail(batch))

apply_fq_nodes_removing_transformation(h, model, batch) ==
    FoldCmds(Enter(h, model, batch), batch)

apply_quantizer_insertion_transformations(h, model, batch) ==
    FoldCmds(Enter(h, model, batch), batch)

apply_convert_insertion_transformations(h, model, batch) ==
    FoldCmds(Enter(h, model, batch), batch)

apply_bias_correction_transformations(h, model, batch) ==
    FoldCmds(Enter(h, model, batch), batch)

apply_weight_update_transformations(h, model, batch) ==
    FoldCmds(Enter(h, model, batch), batch)

\* _apply_output_insertion_transformations
apply_output_insertion_transformations(h, model, batch, id) ==
    WithoutAcc({IF s.err = Ok THEN insert_outputs(s, s.acc, id) ELSE s
                  : s \in FoldCmds(WithAcc(Enter(h, model, batch)), batch)})

\* _apply_insert_operation
apply_insert_operation(h, model, batch, id) ==
    WithoutAcc({IF s.err = Ok THEN insert_outputs(s, s.acc, id) ELSE s
                  : s \in FoldCmds(WithAcc(Enter(h, model, batch)), batch)})

apply_bias_insertion_transformations(h, model, batch) ==
    FoldCmds(Enter(h, model, batch), batch)

apply_multiply_insertion_transformations(h, model, batch) ==
    FoldCmds(Enter(h, model, batch), batch)

apply_update_if_body_transformations(h, model, batch) ==
    FoldCmds(Enter(h, model, batch), batch)

(***************************************************************************)
(* The graphs transformers are built on.                                   *)
(***************************************************************************)
RECURSIVE BuildHeap(_, _)
BuildHeap(h, nodes) ==
    IF nodes = <<>> THEN h ELSE BuildHeap(AddNode(h, Head(nodes)), Tail(nodes))

\* the heap of a graph the caller built: its nodes are the caller's own
Build(nodes) ==
    LET h == BuildHeap(<<>>, nodes)
    IN  [n \in 1..Len(h) |-> [h[n] EXCEPT !.pinned = TRUE]]

\* A quantized two-branch graph: in -> in/fq_output_0 -> conv1 -> add -> res1
\*                                                    \-> conv2 -> res2
\* conv1 and conv2 share the weight w; add reads the bias constant b.
GraphConv ==
    [heap |-> Build(<<
        MkNode(Name("in"), "Parameter", <<>>, 1, "f32", 1, 0),
        MkNode(Name("rng"), "Constant", <<>>, 1, "f32", 1, 1),
        MkNode(Derive(Name("in"), "fq_output", 0), "FakeQuantize",
               <<<<1, 0>>, <<2, 0>>, <<2, 0>>, <<2, 0>>, <<2, 0>>>>, 1, "f32", 1, 256),
        MkNode(Name("w"), "Constant", <<>>, 1, "f32", 2, 3),
        MkNode(Name("conv1"), "Convolution", <<<<3, 0>>, <<4, 0>>>>, 1, "f32", 1, 0),
        MkNode(Name("conv2"), "Convolution", <<<<3, 0>>, <<4, 0>>>>, 1, "f32", 1, 0),
        MkNode(Name("b"), "Constant", <<>>, 1, "f32", 1, 5),
        MkNode(Name("add"), "Add", <<<<5, 0>>, <<7, 0>>>>, 1, "f32", 1, 0),
        MkNode(Name("res1"), "Result", <<<<8, 0>>>>, 1, "f32", 1, 0),
        MkNode(Name("res2"), "Result", <<<<6, 0>>>>, 1, "f32", 1, 0)>>),
     model |-> MkModel(1, <<9, 10>>, <<1>>, <<>>),
     nextId |-> 2]

\* A half-precision graph with a two-output node, a conditional node and a
\* stateful sink: x -> split -(0,1)-> if -> res ; split.1 -> asg
GraphIf ==
    [heap |-> Build(<<
        MkNode(Name("x"), "Parameter", <<>>, 1, "f16", 1, 0),
        MkNode(Name("split"), "Split", <<<<1, 0>>>>, 2, "f16", 1, 0),
        [MkNode(Name("if"), "If", <<<<2, 0>>, <<2, 1>>>>, 1, "f16", 1, 0)
            EXCEPT !.bodies = <<Body(2, "then"), Body(3, "else")>>],
        MkNode(Name("asg"), "Assign", <<<<2, 1>>>>, 1, "f16", 1, 0),
        MkNode(Name("res"), "Result", <<<<3, 0>>>>, 1, "f16", 1, 0)>>),
     model |-> MkModel(1, <<5>>, <<1>>, <<4>>),
     nextId |-> 4]

Graphs == {GraphConv, GraphIf}

(***************************************************************************)
(* The commands tried on each graph.                                       *)
(***************************************************************************)
Params1 == [il |-> 0 - 70000, ih |-> 70000, ol |-> 0 - 1, oh |-> 1, levels |-> 256]

Remove(name) == Cmd("OVFQNodeRemovingCommand", name, 0, POST)

Quantize(name, port, type) ==
    [Cmd("OVQuantizerInsertionCommand", name, port, type) EXCEPT !.q = Params1]

Convert(name, port, type) ==
    [Cmd("OVConvertInsertionCommand", name, port, type) EXCEPT !.q = Params1]

BiasCorrection(name, port, val, n) ==
    [Cmd("OVBiasCorrectionCommand", name, port, POST) EXCEPT !.val = val, !.n = n]

WeightUpdate(name, port, val, n) ==
    [Cmd("OVWeightUpdateCommand", name, port, WEIGHTS) EXCEPT !.val = val, !.n = n]

Extraction(inputs, outputs) ==
    [Cmd("OVModelExtractionCommand", Name(""), 0, POST)
        EXCEPT !.inputs = inputs, !.outputs = outputs]

Inplace(name, port, type, fnport) ==
    [Cmd("OVInplaceFnInsertionCommand", name, port, type) EXCEPT !.fnport = fnport]

Output(name, port, type) == Cmd("OVOutputInsertionCommand", name, port, type)

BiasInsertion(name, port, type) ==
    [Cmd("OVBiasInsertionCommand", name, port, type) EXCEPT !.val = 0]

Multiply(name, port, dests, mname) ==
    [Cmd("OVMultiplyInsertionCommand", name, port, POST)
        EXCEPT !.val = 2, !.dests = dests, !.mname = mname]

UpdateIf(name, port, body) ==
    [Cmd("OVUpdateIfBodyCommand", name, port, PRE) EXCEPT !.body = body]

ExtractIf(name, cond) ==
    [Cmd("OVExtractIfBodyCommand", name, 0, PRE) EXCEPT !.cond = cond]

InFq == Derive(Name("in"), "fq_output", 0)

CommandsConv ==
    {Remove(InFq),
     Quantize(Name("conv1"), 1, WEIGHTS), Quantize(Name("conv2"), 1, WEIGHTS),
     Quantize(InFq, 0, POST), Quantize(Name("in"), 0, POST), Quantize(Name("add"), 1, PRE),
     Convert(Name("conv1"), 1, WEIGHTS), Convert(Name("conv2"), 1, WEIGHTS),
     Convert(InFq, 0, POST),
     BiasCorrection(Name("conv1"), 1, 7, 1), BiasCorrection(Name("conv2"), 1, 7, 1),
     WeightUpdate(Name("conv1"), 1, 9, 2), WeightUpdate(Name("add"), 1, 6, 1),
     WeightUpdate(Name("conv1"), 0, 9, 1),
     Extraction(<<<<Name("conv1"), 0>>>>, <<<<Name("add"), 0>>>>),
     Extraction(<<<<Name("conv1"), 0>>, <<Name("conv2"), 0>>>>, <<<<Name("add"), 0>>>>),
     Extraction(<<<<Name("in"), 0>>>>, <<<<Name("conv2"), 0>>>>),
     Extraction(<<>>, <<<<Name("conv2"), 0>>>>),
     Extraction(<<<<Name("in"), 0>>>>, <<>>),
     Inplace(InFq, 0, POST, 0),
     Output(InFq, 0, POST), Output(Name("conv1"), 0, PRE),
     BiasInsertion(InFq, 0, POST),
     Multiply(InFq, 0, {Name("conv1")}, Name("mul"))}

SubGraph1 == Body(100, "s1")

SubGraph2 == Body(101, "s2")

CommandsIf ==
    {Remove(Name("split")), Remove(Name("asg")),
     Quantize(Name("split"), 1, POST),
     WeightUpdate(Name("if"), 0, 9, 1),
     Extraction(<<<<Name("x"), 0>>>>, <<<<Name("split"), 1>>>>),
     Inplace(Name("split"), 1, POST, 0),
     Output(Name("split"), 1, POST), Output(Name("asg"), 0, PRE),
     BiasInsertion(Name("split"), 1, POST),
     Quantize(Name("split"), 1, LAYER), Output(Name("split"), 1, LAYER),
     BiasInsertion(Name("split"), 0, PRE),
     Multiply(Name("split"), 0, {Name("if")}, Name("mul")),
     UpdateIf(Name("if"), 0, SubGraph1), UpdateIf(Name("if"), 1, SubGraph2),
     UpdateIf(Name("if"), 0, SubGraph2),
     UpdateIf(Name("split"), 0, SubGraph1),
     ExtractIf(Name("if"), TRUE), ExtractIf(Name("if"), FALSE),
     ExtractIf(Name("nope"), TRUE)}

\* the commands tried on a transformer, by the graph it was built on
CommandsFor(h) == IF h[1].name = Name("in") THEN CommandsConv ELSE CommandsIf

\* the layouts of at most MaxLayout commands
Layouts(U) == UNION {[1..n -> U] : n \in 0..MaxLayout}

(***************************************************************************)
(* Tensor statistics (statistics.py).  A numpy array is [nd |-> values],   *)
(* a Tensor wraps one as [data |-> array], a tuple is a bare sequence.     *)
(* A statistic is [cls |-> its class, f |-> its fields by name].           *)
(***************************************************************************)
MaxValue == 3

\* the distance within which fns.allclose takes two values for equal, in
\* the unit of the values
Tol == 1

Values == 0..MaxValue

NdArray(v) == [nd |-> v]

Tensor(x) == [data |-> x]

Tensors == {Tensor(NdArray(<<v>>)) : v \in Values}

\* np.array(x) of an array: an array of the same values
np_array(x) == NdArray(x.nd)

\* np.array(t) of a tuple
np_array_of_tuple(t) == NdArray(t)

\* tuple(x) of an array
tuple(x) == x.nd

Abs(n) == IF n < 0 THEN 0 - n ELSE n

\* fns.allclose(a, b) on two tensors: every pair of values is within the
\* tolerance
allclose(a, b) ==
    /\ Len(a.data.nd) = Len(b.data.nd)
    /\ \A i \in DOMAIN a.data.nd : Abs(a.data.nd[i] - b.data.nd[i]) <= Tol

MinMaxTensorStatistic(min_values, max_values) ==
    [cls |-> "MinMaxTensorStatistic",
     f |-> [min_values |-> min_values, max_values |-> max_values]]

MeanTensorStatistic(mean_values, shape) ==
    [cls |-> "MeanTensorStatistic", f |-> [mean_values |-> mean_values, shape |-> shape]]

MedianMADTensorStatistic(median_values, mad_values) ==
    [cls |-> "MedianMADTensorStatistic",
     f |-> [median_values |-> median_values, mad_values |-> mad_values]]

PercentileTensorStatistic(percentile_vs_values_dict) ==
    [cls |-> "PercentileTensorStatistic",
     f |-> [percentile_vs_values_dict |-> percentile_vs_values_dict]]

RawTensorStatistic(values) ==
    [cls |-> "RawTensorStatistic", f |-> [values |-> values]]

\* what a comparison or a load gives: a Python bool, or the error raised
True == "True"

False == "False"

Bool(b) == IF b THEN True ELSE False

\* MinMaxTensorStatistic.__eq__
MinMaxEq(self, other) ==
    IF other.cls = "MinMaxTensorStatistic"
    THEN Bool(/\ allclose(self.f.min_values, other.f.min_values)
              /\ allclose(self.f.max_values, other.f.max_values))
    ELSE False

\* MeanTensorStatistic.__eq__
MeanEq(self, other) ==
    IF other.cls = "MeanTensorStatistic"
    THEN Bool(/\ self.f.shape = other.f.shape
              /\ allclose(self.f.mean_values, other.f.mean_values))
    ELSE False

\* MedianMADTensorStatistic.__eq__
MedianMADEq(self, other) ==
    IF other.cls = "MedianMADTensorStatistic"
    THEN Bool(/\ allclose(self.f.median_values, other.f.median_values)
              /\ allclose(self.f.mad_values, other.f.mad_values))
    ELSE False

\* PercentileTensorStatistic.__eq__
PercentileEq(self, other) ==
    IF other.cls = "PercentileTensorStatistic"
    THEN LET d1 == self.f.percentile_vs_values_dict
             d2 == other.f.percentile_vs_values_dict
         IN  IF DOMAIN d1 # DOMAIN d2 THEN False
             ELSE Bool(\A pct \in DOMAIN d1 : allclose(d1[pct], d2[pct]))
    ELSE False

\* RawTensorStatistic.__eq__: the other statistic is asked to be a
\* percentile statistic, which has no attribute `values`
RawEq(self, other) ==
    IF other.cls = "PercentileTensorStatistic"
    THEN IF "values" \notin DOMAIN other.f THEN "AttributeError"
         ELSE Bool(allclose(self.f.values, other.f.values))
    ELSE False

\* self == other
Eq(self, other) ==
    CASE self.cls = "MinMaxTensorStatistic" -> MinMaxEq(self, other)
      [] self.cls = "MeanTensorStatistic" -> MeanEq(self, other)
      [] self.cls = "MedianMADTensorStatistic" -> MedianMADEq(self, other)
      [] self.cls = "PercentileTensorStatistic" -> PercentileEq(self, other)
      [] self.cls = "RawTensorStatistic" -> RawEq(self, other)

\* MinMaxTensorStatistic.get_dumped_data
MinMaxGetDumpedData(self, target_node_info) ==
    [type |-> "MinMaxTensorStatistic",
     target_node_info |-> target_node_info,
     min_values |-> np_array(self.f.min_values.data),
     max_values |-> np_array(self.f.max_values.data)]

\* MeanTensorStatistic.get_dumped_data
MeanGetDumpedData(self, target_node_info) ==
    [type |-> "MinMaxTensorStatistic",
     target_node_info |-> target_node_info,
     mean_values |-> np_array(self.f.mean_values.data),
     shape |-> np_array_of_tuple(self.f.shape)]

\* MinMaxTensorStatistic.load_data
MinMaxLoadData(self, min_values, max_values) ==
    [self EXCEPT !.f.min_values = Tensor(min_values), !.f.max_values = Tensor(max_values)]

\* a mutant: the two arrays of the record are taken the other way round
MinMaxLoadDumpedDataSwapped(self, data) ==
    IF {"min_values", "max_values"} \subseteq DOMAIN data
    THEN [err |-> Ok, self |-> MinMaxLoadData(self, data["max_values"], data["min_values"])]
    ELSE [err |-> "KeyError", self |-> self]

\* MinMaxTensorStatistic.load_dumped_data: the loaded statistic, or the
\* KeyError of a record without the two keys
MinMaxLoadDumpedData(self, data) ==
    IF {"min_values", "max_values"} \subseteq DOMAIN data
    THEN [err |-> Ok, self |-> MinMaxLoadData(self, data["min_values"], data["max_values"])]
    ELSE [err |-> "KeyError", self |-> self]

\* MeanTensorStatistic.load_data
MeanLoadData(self, mean_values, shape) ==
    [self EXCEPT !.f.mean_values = Tensor(mean_values), !.f.shape = tuple(shape)]

\* MeanTensorStatistic.load_dumped_data
MeanLoadDumpedData(self, data) ==
    IF {"mean_values", "shape"} \subseteq DOMAIN data
    THEN [err |-> Ok, self |-> MeanLoadData(self, data["mean_values"], data["shape"])]
    ELSE [err |-> "KeyError", self |-> self]

\* the statistics, the target-node descriptors and the percentile maps the
\* statistic machine is run on
Shapes == {<<1>>, <<2>>}

Infos == {"node_a", "node_b"}

PercentileDicts ==
    {("p1" :> x) : x \in Tensors} \cup {("p1" :> x) @@ ("p99" :> y) : x, y \in Tensors}

Statistics ==
    {MinMaxTensorStatistic(x, y) : x, y \in Tensors}
        \cup {MeanTensorStatistic(x, sh) : x \in Tensors, sh \in Shapes}
        \cup {MedianMADTensorStatistic(x, y) : x, y \in Tensors}
        \cup {PercentileTensorStatistic(d) : d \in PercentileDicts}
        \cup {RawTensorStatistic(x) : x \in Tensors}

\* the statistic machine at rest
NoStat == [pc |-> "off"]

(***************************************************************************)
(* The transformer.                                                        *)
(*   heap       the node heap of the runtime                               *)
(*   selfModel  self._model, the graph the transformer was built on        *)
(*   layout     the layout of the running (or last) call of transform      *)
(*   model      the local variable model of transform                      *)
(*   idx        the next entry of _command_transformation_ordered_pairs    *)
(*   pc         "idle", "loop" (inside the for loop), "done" or "failed"   *)
(*   ret, err   what the call returned, or the error it raised             *)
(*   nextId     the next free model instance id                            *)
(*   calls      history: the applier calls of the running call, each with  *)
(*              its position, its batch and the instance ids of the model  *)
(*              it was given and of the model it returned (0 on a raise)   *)
(*   prev       history: the heap and the model the last applier call was  *)
(*              given                                                      *)
(*   stat       the statistic machine: two statistics a and b, a target    *)
(*              node descriptor, the record dumped from a, and the result  *)
(*              of the last comparison or load; at rest while a            *)
(*              transformer runs                                           *)
(***************************************************************************)
VARIABLES heap, selfModel, layout, model, idx, pc, ret, err, nextId, calls, prev, stat

vars == <<heap, selfModel, layout, model, idx, pc, ret, err, nextId, calls, prev, stat>>

Init ==
    \E G \in Graphs :
        /\ heap = G.heap
        /\ selfModel = G.model
        /\ nextId = G.nextId
        /\ layout = <<>>
        /\ model = NoModel
        /\ idx = 0
        /\ pc = "idle"
        /\ ret = NoModel
        /\ err = Ok
        /\ calls = <<>>
        /\ prev = [heap |-> <<>>, model |-> NoModel]
        /\ stat = NoStat

\* a mutant: only the commands of the class of the first command of the
\* layout are collected
AggregatedOfFirst(L, cls) ==
    IF L # <<>> /\ Head(L).kind = cls THEN SelectSeq(L, LAMBDA t : t.kind = cls) ELSE <<>>

\* aggregated_transformations[cls]: the commands of one class, in
\* submission order
Aggregated(L, cls) == SelectSeq(L, LAMBDA t : t.kind = cls)

Bucket(i) == Aggregated(layout, CommandOrder[i])

\* the method paired with entry i of _command_transformation_ordered_pairs,
\* applied to a model and a batch: its possible outcomes.  id is the
\* instance id of the model the method builds, when it builds one
Dispatch(i, h, m, batch, id) ==
    CASE i = 1 -> apply_fq_nodes_removing_transformation(h, m, batch)
      [] i = 2 -> apply_quantizer_insertion_transformations(h, m, batch)
      [] i = 3 -> apply_convert_insertion_transformations(h, m, batch)
      [] i = 4 -> apply_bias_correction_transformations(h, m, batch)
      [] i = 5 -> apply_weight_update_transformations(h, m, batch)
      [] i = 6 -> apply_model_extraction_transformation(h, m, batch, id)
      [] i = 7 -> apply_insert_operation(h, m, batch, id)
      [] i = 8 -> apply_output_insertion_transformations(h, m, batch, id)
      [] i = 9 -> apply_bias_insertion_transformations(h, m, batch)
      [] i = 10 -> apply_multiply_insertion_transformations(h, m, batch)
      [] i = 11 -> apply_update_if_body_transformations(h, m, batch)
      [] i = 12 -> apply_extract_if_body_transformation(h, m, batch)

\* the appliers that return a model instance of their own
BuildsModel(i) == i \in {6, 7, 8}

RECURSIVE run_from(_, _, _, _, _)
\* the for loop of transform from entry i on, as a function of the layout:
\* the possible outcomes [heap, model, err] of the call
run_from(h, m, nid, L, i) ==
    IF i > Len(CommandOrder) THEN {[heap |-> h, model |-> m, err |-> Ok]}
    ELSE LET batch == Aggregated(L, CommandOrder[i])
         IN  IF batch = <<>> THEN run_from(h, m, nid, L, i + 1)
             ELSE UNION {IF o.err = Ok
                         THEN run_from(Collect(o.heap, o.model), o.model,
                                       IF BuildsModel(i) THEN nid + 1 ELSE nid, L, i + 1)
                         ELSE {[heap |-> o.heap, model |-> o.model, err |-> o.err]}
                            : o \in Dispatch(i, h, m, batch, nid)}

\* transform, lines 123-128: group the commands by class, clone the model
Transform ==
    /\ pc = "idle"
    /\ LET c == Clone(heap, selfModel, nextId)
       IN  /\ heap' = c.heap
           /\ model' = c.model
           /\ nextId' = c.nextId
    /\ idx' = 1
    /\ pc' = "loop"
    /\ calls' = <<>>
    /\ UNCHANGED <<selfModel, ret, err, prev, stat>>
    /\ layout' \in Layouts(CommandsFor(heap))

\* the for loop of transform has reached entry i: the entries from idx up
\* to i have no commands, entry i has
Reached(i) ==
    /\ pc = "loop"
    /\ idx <= i
    /\ \A j \in idx..(i - 1) : Bucket(j) = <<>>
    /\ Bucket(i) # <<>>

\* a mutant: an applier that fails is skipped, the loop going on with the
\* model it was given
AppliedOrSkipped(i, outcomes) ==
    \E o \in outcomes :
        /\ calls' = Append(calls, [pos |-> i, batch |-> Bucket(i), given |-> model.id,
                                   returned |-> IF o.err = Ok THEN o.model.id ELSE 0])
        /\ IF o.err = Ok
           THEN /\ heap' = Collect(o.heap, o.model)
                /\ model' = o.model
                /\ nextId' = IF BuildsModel(i) THEN nextId + 1 ELSE nextId
           ELSE /\ heap' = o.heap
                /\ UNCHANGED <<model, nextId>>
        /\ idx' = i + 1
        /\ prev' = [heap |-> heap, model |-> model]
        /\ UNCHANGED <<selfModel, layout, ret, pc, err, stat>>

\* model = transformation_fn(model, transformations) for entry i, with the
\* possible outcomes of the method
Applied(i, outcomes) ==
    \E o \in outcomes :
        /\ calls' = Append(calls, [pos |-> i, batch |-> Bucket(i), given |-> model.id,
                                   returned |-> IF o.err = Ok THEN o.model.id ELSE 0])
        /\ IF o.err = Ok
           THEN /\ heap' = Collect(o.heap, o.model)
                /\ model' = o.model
                /\ idx' = i + 1
                /\ nextId' = IF BuildsModel(i) THEN nextId + 1 ELSE nextId
                /\ UNCHANGED <<pc, err>>
           ELSE /\ heap' = o.heap
                /\ pc' = "failed"
                /\ err' = o.err
                /\ UNCHANGED <<model, idx, nextId>>
        /\ prev' = [heap |-> heap, model |-> model]
        /\ UNCHANGED <<selfModel, layout, ret, stat>>

ApplyFQNodesRemoving ==
    Reached(1) /\ Applied(1, apply_fq_nodes_removing_transformation(heap, model, Bucket(1)))

ApplyQuantizerInsertion ==
    Reached(2) /\ Applied(2, apply_quantizer_insertion_transformations(heap, model, Bucket(2)))

ApplyConvertInsertion ==
    Reached(3) /\ Applied(3, apply_convert_insertion_transformations(heap, model, Bucket(3)))

ApplyBiasCorrection ==
    Reached(4) /\ Applied(4, apply_bias_correction_transformations(heap, model, Bucket(4)))

ApplyWeightUpdate ==
    Reached(5) /\ Applied(5, apply_weight_update_transformations(heap, model, Bucket(5)))

ApplyModelExtraction ==
    Reached(6) /\ Applied(6, apply_model_extraction_transformation(heap, model, Bucket(6), nextId))

ApplyInsertOperation ==
    Reached(7) /\ Applied(7, apply_insert_operation(heap, model, Bucket(7), nextId))

ApplyOutputInsertion ==
    Reached(8) /\ Applied(8, apply_output_insertion_transformations(heap, model, Bucket(8), nextId))

ApplyBiasInsertion ==
    Reached(9) /\ Applied(9, apply_bias_insertion_transformations(heap, model, Bucket(9)))

ApplyMultiplyInsertion ==
    Reached(10) /\ Applied(10, apply_multiply_insertion_transformations(heap, model, Bucket(10)))

ApplyUpdateIfBody ==
    Reached(11) /\ Applied(11, apply_update_if_body_transformations(heap, model, Bucket(11)))

ApplyExtractIfBody ==
    Reached(12) /\ Applied(12, apply_extract_if_body_transformation(heap, model, Bucket(12)))

\* a mutant: the transformer hands out its own model
ReturnSelf ==
    /\ pc = "loop"
    /\ \A j \in idx..Len(CommandOrder) : Bucket(j) = <<>>
    /\ pc' = "done"
    /\ ret' = selfModel
    /\ UNCHANGED <<heap, selfModel, layout, model, idx, err, nextId, calls, prev, stat>>

\* transform, line 135: no entry with commands is left, return model
Return ==
    /\ pc = "loop"
    /\ \A j \in idx..Len(CommandOrder) : Bucket(j) = <<>>
    /\ pc' = "done"
    /\ ret' = model
    /\ UNCHANGED <<heap, selfModel, layout, model, idx, err, nextId, calls, prev, stat>>

Next ==
    \/ Transform
    \/ ApplyFQNodesRemoving
    \/ ApplyQuantizerInsertion
    \/ ApplyConvertInsertion
    \/ ApplyBiasCorrection
    \/ ApplyWeightUpdate
    \/ ApplyModelExtraction
    \/ ApplyInsertOperation
    \/ ApplyOutputInsertion
    \/ ApplyBiasInsertion
    \/ ApplyMultiplyInsertion
    \/ ApplyUpdateIfBody
    \/ ApplyExtractIfBody
    \/ Return

Spec == Init /\ [][Next]_vars

(***************************************************************************)
(* The statistic machine: statistics a and b are given; a is dumped, the   *)
(* record is loaded into b, and a is compared with b, as given or as       *)
(* loaded.  No transformer runs.                                           *)
(***************************************************************************)
NoRecord == [type |-> "none"]

InitStat ==
    /\ heap = <<>>
    /\ selfModel = NoModel
    /\ nextId = 1
    /\ layout = <<>>
    /\ model = NoModel
    /\ idx = 0
    /\ pc = "off"
    /\ ret = NoModel
    /\ err = Ok
    /\ calls = <<>>
    /\ prev = [heap |-> <<>>, model |-> NoModel]
    /\ \E a \in Statistics, b \in Statistics, info \in Infos :
        stat = [pc |-> "new", a |-> a, b |-> b, info |-> info,
                rec |-> NoRecord, out |-> "none"]

TransformerOff ==
    UNCHANGED <<heap, selfModel, layout, model, idx, pc, ret, err, nextId, calls, prev>>

\* rec = a.get_dumped_data(info), for the two classes that have the method
GetDumpedData ==
    /\ stat.pc = "new"
    /\ stat.a.cls \in {"MinMaxTensorStatistic", "MeanTensorStatistic"}
    /\ stat' = [stat EXCEPT
                   !.pc = "dumped",
                   !.rec = IF stat.a.cls = "MinMaxTensorStatistic"
                           THEN MinMaxGetDumpedData(stat.a, stat.info)
                           ELSE MeanGetDumpedData(stat.a, stat.info)]
    /\ TransformerOff

\* b.load_dumped_data(rec), for the two classes that have the method
LoadDumpedData ==
    /\ stat.pc = "dumped"
    /\ stat.b.cls \in {"MinMaxTensorStatistic", "MeanTensorStatistic"}
    /\ LET loaded == IF stat.b.cls = "MinMaxTensorStatistic"
                     THEN MinMaxLoadDumpedData(stat.b, stat.rec)
                     ELSE MeanLoadDumpedData(stat.b, stat.rec)
       IN  stat' = IF loaded.err # Ok
                   THEN [stat EXCEPT !.pc = "failed", !.out = loaded.err]
                   ELSE [stat EXCEPT !.pc = "loaded", !.b = loaded.self]
    /\ TransformerOff

\* out = (a == b), b as given or as loaded
Compare ==
    /\ stat.pc \in {"new", "loaded"}
    /\ stat' = [stat EXCEPT
                   !.pc = IF stat.pc = "new" THEN "compared" ELSE "compared_loaded",
                   !.out = Eq(stat.a, stat.b)]
    /\ TransformerOff

NextStat ==
    \/ GetDumpedData
    \/ LoadDumpedData
    \/ Compare

SpecStat == InitStat /\ [][NextStat]_vars

(***************************************************************************)
(* What is compared when two graphs are called structurally equal: the     *)
(* nodes by name, type, value and the names of their sources, and the      *)
(* names of the results, parameters and sinks; node ids and instance ids   *)
(* are left out.                                                           *)
(***************************************************************************)
NodeView(h, n) ==
    [name |-> h[n].name, type |-> h[n].type, et |-> h[n].et, shape |-> h[n].shape,
     val |-> h[n].val, tnames |-> h[n].tnames,
     ins |-> [i \in DOMAIN h[n].ins |-> <<h[h[n].ins[i][1]].name, h[n].ins[i][2]>>],
     bodies |-> [k \in DOMAIN h[n].bodies |-> h[n].bodies[k].g]]

View(h, m) ==
    [nodes |-> {NodeView(h, n) : n \in GetOps(h, m)},
     results |-> [k \in DOMAIN m.results |-> h[m.results[k]].name],
     params |-> [k \in DOMAIN m.params |-> h[m.params[k]].name],
     sinks |-> [k \in DOMAIN m.sinks |-> h[m.sinks[k]].name],
     g |-> m.g]

\* the graph the transformer was built on, as it was at construction
Origin == CHOOSE G \in Graphs : G.model = selfModel

Finished == pc \in {"done", "failed"}

\* the instance ids of the sub-graphs held by the nodes of a model
BodyIds(h, m) == UNION {{b.id : b \in Range(h[n].bodies)} : n \in GetOps(h, m)}

(***************************************************************************)
(* C1.  Whatever the layout, and whether transform returns or fails, the   *)
(* transformer's own graph keeps the nodes, edges, names, parameters and   *)
(* results it had at construction: every node record of the original heap  *)
(* is unchanged and self._model lists the same nodes.  Stated for every    *)
(* state of the call, so also for the states between two appliers.         *)
(***************************************************************************)
OriginalGraphUnchanged ==
    \E G \in Graphs :
        /\ selfModel = G.model
        /\ Len(heap) >= Len(G.heap)
        /\ \A n \in 1..Len(G.heap) : heap[n] = G.heap[n]

\* a call has finished after editing its clone: the working graph differs
\* from the original one
C1_EditedCloneReached ==
    /\ Finished
    /\ calls # <<>>
    /\ View(heap, model) # View(heap, selfModel)

(***************************************************************************)
(* C2.  The appliers run in the fixed order removal, quantizer insertion,  *)
(* converter insertion, bias correction, weight update, model extraction,  *)
(* in-place insertion, output insertion, bias insertion, scale insertion,  *)
(* body update, body extraction, whatever the order of the layout.  An     *)
(* applier is called once when its kind has commands and never otherwise,  *)
(* with all commands of its kind in submission order and the graph the     *)
(* previous applier returned (the clone for the first).                    *)
(***************************************************************************)
FixedOrder ==
    <<"OVFQNodeRemovingCommand", "OVQuantizerInsertionCommand",
      "OVConvertInsertionCommand", "OVBiasCorrectionCommand",
      "OVWeightUpdateCommand", "OVModelExtractionCommand",
      "OVInplaceFnInsertionCommand", "OVOutputInsertionCommand",
      "OVBiasInsertionCommand", "OVMultiplyInsertionCommand",
      "OVUpdateIfBodyCommand", "OVExtractIfBodyCommand">>

RECURSIVE Submitted(_, _)
\* the commands of one kind in the order the layout lists them
Submitted(L, kind) ==
    IF L = <<>> THEN <<>>
    ELSE (IF Head(L).kind = kind THEN <<Head(L)>> ELSE <<>>) \o Submitted(Tail(L), kind)

\* the positions of the fixed order whose kind has commands in the layout
KindsPresent(L) == {i \in DOMAIN FixedOrder : Submitted(L, FixedOrder[i]) # <<>>}

AppliersInFixedOrder ==
    LET called == {calls[k].pos : k \in DOMAIN calls}
    IN  /\ \A k \in DOMAIN calls :
            /\ calls[k].pos \in KindsPresent(layout)
            /\ calls[k].batch = Submitted(layout, FixedOrder[calls[k].pos])
        /\ \A k \in 1..(Len(calls) - 1) :
            /\ calls[k].pos < calls[k + 1].pos
            /\ calls[k + 1].given = calls[k].returned
        /\ calls # <<>> => calls[1].given \notin {0, selfModel.id}
        \* no kind with commands is skipped on the way
        /\ pc = "loop" => called = {i \in KindsPresent(layout) : i < idx}
        /\ pc = "done" => called = KindsPresent(layout)
        /\ pc = "failed" =>
            /\ calls # <<>>
            /\ calls[Len(calls)].returned = 0
            /\ called = {i \in KindsPresent(layout) : i <= calls[Len(calls)].pos}

\* a call has returned after two appliers, the layout listing the command
\* of the later applier first
C2_ReversedLayoutReached ==
    /\ pc = "done"
    /\ Len(layout) = 2
    /\ Len(calls) = 2
    /\ calls[1].batch = <<layout[2]>>
    /\ calls[2].batch = <<layout[1]>>

(***************************************************************************)
(* C3.  transform with an empty layout calls no applier and returns a      *)
(* graph structurally equal to the transformer's graph (same nodes, edges, *)
(* names, parameters, results) that is another instance: another model,    *)
(* other nodes, other sub-graph instances.                                 *)
(***************************************************************************)
EmptyLayoutReturnsClone ==
    (pc = "done" /\ layout = <<>>) =>
        /\ calls = <<>>
        /\ View(heap, ret) = View(heap, selfModel)
        /\ ret.id # selfModel.id
        /\ GetOps(heap, ret) \cap GetOps(heap, selfModel) = {}
        /\ BodyIds(heap, ret) \cap BodyIds(heap, selfModel) = {}

C3_EmptyLayoutDone ==
    /\ pc = "done"
    /\ layout = <<>>
    /\ ret # NoModel
    /\ GetOps(heap, ret) # {}

(***************************************************************************)
(* C4.  Two layouts that hold the same commands and keep the order of the  *)
(* commands of each kind give the same outcome on the same graph (a        *)
(* structurally equal graph, or the same failure).  All such layouts have  *)
(* one rearrangement in common, the one that lists the commands kind by    *)
(* kind; every call ends with an outcome transform has for that            *)
(* rearrangement of its layout, so the order across kinds has no effect.   *)
(***************************************************************************)
Perms(n) == {p \in [1..n -> 1..n] : \A i, j \in 1..n : i # j => p[i] # p[j]}

\* the layouts that hold the same commands as L
Rearranged(L) == {[k \in 1..Len(L) |-> L[p[k]]] : p \in Perms(Len(L))}

SameOrderWithinKinds(L1, L2) ==
    \A i \in DOMAIN FixedOrder : Submitted(L1, FixedOrder[i]) = Submitted(L2, FixedOrder[i])

RECURSIVE GroupedFrom(_, _)
GroupedFrom(L, i) ==
    IF i > Len(FixedOrder) THEN <<>>
    ELSE Submitted(L, FixedOrder[i]) \o GroupedFrom(L, i + 1)

\* the commands of L listed kind by kind, each kind in the order of L
Grouped(L) == GroupedFrom(L, 1)

\* what a caller sees of an outcome: the error, or the returned graph
OutcomeView(o) ==
    [err |-> o.err, view |-> IF o.err = Ok THEN View(o.heap, o.model) ELSE View(o.heap, NoModel)]

\* the outcomes of transform(L) on the graph the transformer was built on
Outcomes(L) ==
    LET c == Clone(Origin.heap, Origin.model, Origin.nextId)
    IN  {OutcomeView(o) : o \in run_from(c.heap, c.model, c.nextId, L, 1)}

OrderAcrossKindsIrrelevant ==
    Finished =>
        /\ \A L2 \in Rearranged(layout) :
                SameOrderWithinKinds(layout, L2) => Grouped(L2) = Grouped(layout)
        /\ OutcomeView([heap |-> heap, model |-> IF pc = "done" THEN ret ELSE NoModel,
                        err |-> err])
                \in Outcomes(Grouped(layout))

\* a call has finished after two appliers on a layout that lists the
\* command of the later applier first
C4_RearrangedLayoutFinished ==
    /\ Finished
    /\ Len(calls) = 2
    /\ Grouped(layout) # layout

(***************************************************************************)
(* The last applier call, the graph it was given and the graph it left.    *)
(***************************************************************************)
LastCall == calls[Len(calls)]

\* applier i was the last one called, and it returned
Returned(i) == calls # <<>> /\ LastCall.pos = i /\ LastCall.returned # 0

\* applier i was the last one called, and it raised e
Raised(i, e) ==
    calls # <<>> /\ LastCall.pos = i /\ LastCall.returned = 0 /\ pc = "failed" /\ err = e

Named(h, m, nm) == {n \in GetOps(h, m) : h[n].name = nm}

NamesOf(h, m) == {h[n].name : n \in GetOps(h, m)}

\* the nodes built since the heap was h0 that are nodes of the given type
Created(h0, type) == {n \in (Len(h0) + 1)..Len(heap) : heap[n].type = type}

\* the input ports a batch addresses in the graph it is given
AddressedPorts(h0, m0, batch) ==
    UNION {{<<n, batch[k].port>> : n \in Named(h0, m0, batch[k].name)} : k \in DOMAIN batch}

SharingHolds(i, kind, distinct) ==
    Returned(i) =>
        LET batch == LastCall.batch
            ports == AddressedPorts(prev.heap, prev.model, batch)
            sources == {SourceOutput(prev.heap, p) : p \in ports}
        IN  (/\ \A k \in DOMAIN batch : batch[k].type = WEIGHTS
             /\ Cardinality(sources) = 1
             /\ distinct =>
                    /\ Cardinality(ports) = Len(batch)
                    /\ \A o \in sources :
                            Cardinality(ConsumersOfType(prev.heap, o, kind)) <= 1)
            => /\ Cardinality(Created(prev.heap, kind)) <= 1
               /\ \E q \in 1..Len(heap) :
                    /\ heap[q].type = kind
                    /\ \A p \in ports : SourceOutput(heap, p) = <<q, 0>>

InsertionAppliers == {2, 3, 7, 8, 9, 10}

\* the names the removal commands of the running call have removed
RemovedNames ==
    IF calls # <<>> /\ calls[1].pos = 1 /\ calls[1].returned # 0
    THEN {calls[1].batch[k].name : k \in DOMAIN calls[1].batch}
    ELSE {}

BatchNames(batch) == {batch[k].name : k \in DOMAIN batch}

(***************************************************************************)
(* C6, as claimed.  Once a removal command has removed node N, an          *)
(* insertion applier whose first command addresses N's name fails with     *)
(* NodeNotFound; an insertion applier whose commands all address names of  *)
(* nodes of the transformer's graph that no removal command removed does   *)
(* not fail with NodeNotFound.                                             *)
(***************************************************************************)
RemovedNamesAloneAreNotFound ==
    \A i \in InsertionAppliers :
        (calls # <<>> /\ LastCall.pos = i) =>
            /\ LastCall.batch[1].name \in RemovedNames => Raised(i, "NodeNotFound")
            /\ BatchNames(LastCall.batch)
                    \subseteq (NamesOf(Origin.heap, Origin.model) \ RemovedNames)
                => ~Raised(i, "NodeNotFound")

(***************************************************************************)
(* C6, amended.  The graph the removal applier returns holds no node of   *)
(* the name of a removed node that was not a result or a sink.  An         *)
(* insertion applier whose first command addresses a name that no node of  *)
(* the graph it is given has (a removed name that no command applied since *)
(* has given to a new node, or the name of a node model extraction has     *)
(* dropped) fails with NodeNotFound; an insertion applier whose commands   *)
(* all address names of nodes of the graph it is given does not fail with  *)
(* NodeNotFound.                                                           *)
(***************************************************************************)
LookupFollowsTheGivenGraph ==
    /\ Returned(1) =>
        \A nm \in BatchNames(LastCall.batch) :
            Named(prev.heap, prev.model, nm)
                    \cap (Range(prev.model.results) \cup Range(prev.model.sinks)) = {}
                => nm \notin NamesOf(heap, model)
    /\ \A i \in InsertionAppliers :
        (calls # <<>> /\ LastCall.pos = i) =>
            /\ LastCall.batch[1].name \notin NamesOf(prev.heap, prev.model)
                => Raised(i, "NodeNotFound")
            /\ BatchNames(LastCall.batch) \subseteq NamesOf(prev.heap, prev.model)
                => ~Raised(i, "NodeNotFound")

\* an insertion applier has failed at the name of a node a removal command
\* of the same call removed
C6_InsertionAtRemovedNodeFailed ==
    /\ Len(calls) = 2
    /\ calls[1].pos = 1
    /\ LastCall.pos \in InsertionAppliers
    /\ LastCall.batch[1].name \in RemovedNames
    /\ Raised(LastCall.pos, "NodeNotFound")

(***************************************************************************)
(* C7.  After every applier that returns, the graph is well-formed: every  *)
(* input port of every node is bound to an output port of a live node, and *)
(* an input port is in the consumer set of an output exactly when that     *)
(* output is its source.                                                   *)
(***************************************************************************)
WellFormed(h, m) ==
    \A n \in GetOps(h, m) :
        /\ h[n].alive
        /\ \A i \in InputPorts(h, n) :
            LET src == SourceOutput(h, <<n, i>>)
            IN  /\ src[1] \in 1..Len(h)
                /\ h[src[1]].alive
                /\ src[2] \in OutputPorts(h, src[1])
                /\ <<n, i>> \in TargetInputs(h, src)
        /\ \A p \in OutputPorts(h, n) :
            \A c \in TargetInputs(h, <<n, p>>) :
                /\ c[1] \in 1..Len(h)
                /\ h[c[1]].alive
                /\ c[2] \in InputPorts(h, c[1])
                /\ SourceOutput(h, c) = <<n, p>>

NodeNamesStayUnique ==
    pc \in {"loop", "done"} =>
        \A n1, n2 \in GetOps(heap, model) : n1 # n2 => heap[n1].name # heap[n2].name

(***************************************************************************)
(* Bias correction.                                                        *)
(***************************************************************************)
\* the additive consumers of output 0 of the node a command addresses
AddConsumers(h0, m0, t) ==
    {c[1] : c \in {d \in UNION {TargetInputs(h0, <<n, 0>>) : n \in Named(h0, m0, t.name)}
                        : h0[d[1]].type = "Add"}}

RECURSIVE ConstantPort(_, _)
\* the port that reads the constant behind port p: p itself when it reads a
\* constant, else the first port along input 0 that does
ConstantPort(h0, p) ==
    LET src == SourceOutput(h0, p)[1]
    IN  IF h0[src].type = "Constant" \/ Len(h0[src].ins) = 0 THEN p
        ELSE ConstantPort(h0, <<src, 0>>)

NonConstants(h, m) == {n \in GetOps(h, m) : h[n].type # "Constant"}

\* the input ports of the nodes of the given graph whose source the last
\* applier changed
ChangedPorts ==
    {p \in UNION {{<<n, i>> : i \in InputPorts(heap, n)}
                    : n \in GetOps(heap, model) \cap (1..Len(prev.heap))}
        : SourceOutput(heap, p) # SourceOutput(prev.heap, p)}

\* the frame of a bias-correction batch whose k-th command rebinds one of
\* the ports cand[k]
BiasCorrectionFrame(cand) ==
    LET h0 == prev.heap
        batch == LastCall.batch
    IN  /\ ChangedPorts \subseteq UNION {cand[k] : k \in DOMAIN batch}
        /\ \A k \in DOMAIN batch : cand[k] \cap ChangedPorts # {}
        /\ \A p \in ChangedPorts :
            LET c == SourceOutput(heap, p)[1]
            IN  /\ c > Len(h0)
                /\ heap[c].type = "Constant"
                /\ \E k \in DOMAIN batch : p \in cand[k] /\ heap[c].val = batch[k].val
        /\ \A n \in GetOps(heap, model) :
            n > Len(h0) => heap[n].type = "Constant" /\ heap[n].ins = <<>>
        /\ NonConstants(heap, model) = NonConstants(h0, prev.model)
        /\ model.params = prev.model.params
        /\ model.results = prev.model.results

(***************************************************************************)
(* C9, as claimed.  A bias correction on node N with port p changes only   *)
(* the source of input port p of an additive consumer of N, which then     *)
(* reads the new constant; every other input port keeps its source, and    *)
(* the non-constant nodes, the parameters and the results are the same.    *)
(***************************************************************************)
BiasCorrectionRebindsAddPort ==
    Returned(4) =>
        BiasCorrectionFrame(
            [k \in DOMAIN LastCall.batch |->
                {<<a, LastCall.batch[k].port>>
                    : a \in AddConsumers(prev.heap, prev.model, LastCall.batch[k])}])

(***************************************************************************)
(* C9, amended.  The port whose source changes is the one that read the    *)
(* constant: port p of the additive consumer when p reads a constant, else *)
(* the first port that reads a constant walking back from p along input 0. *)
(* That port then reads the new constant; the rest is as claimed.          *)
(***************************************************************************)
BiasCorrectionRebindsConstantPort ==
    Returned(4) =>
        BiasCorrectionFrame(
            [k \in DOMAIN LastCall.batch |->
                {ConstantPort(prev.heap, <<a, LastCall.batch[k].port>>)
                    : a \in AddConsumers(prev.heap, prev.model, LastCall.batch[k])}])

\* a bias correction has returned and an input port reads the corrected
\* bias value
C9_BiasCorrected ==
    /\ Returned(4)
    /\ \E n \in GetOps(heap, model) : \E i \in InputPorts(heap, n) :
            LET c == SourceOutput(heap, <<n, i>>)[1]
            IN  c > Len(prev.heap) /\ heap[c].val = LastCall.batch[1].val

(***************************************************************************)
(* Model extraction.                                                       *)
(***************************************************************************)
\* the extraction command the applier honours, with explicit output
\* boundaries
Extracted ==
    /\ Returned(6)
    /\ LastCall.batch[Len(LastCall.batch)].outputs # <<>>

\* the parameters are those created or reused for input_ids, in order
ParametersAsRequested(t) ==
    /\ Len(model.params) = Len(t.inputs)
    /\ \A j \in DOMAIN t.inputs :
        LET nm == t.inputs[j][1]
            q == model.params[j]
        IN  IF nm \in {prev.heap[n].name : n \in Range(prev.model.params)}
            THEN q \in Named(prev.heap, prev.model, nm)
            ELSE /\ q > Len(prev.heap)
                 /\ heap[q].type = "Parameter"
                 /\ heap[q].name = get_parameter_node_name(nm, t.inputs[j][2])

\* the results are those created for output_ids, in order
ResultsAsRequested(t) ==
    /\ Len(model.results) = Len(t.outputs)
    /\ \A j \in DOMAIN t.outputs :
        LET nm == t.outputs[j][1]
            r == model.results[j]
        IN  /\ r > Len(prev.heap)
            /\ heap[r].type = "Result"
            /\ heap[r].name = get_result_node_name(nm, t.outputs[j][2])
            /\ \E n \in Named(prev.heap, prev.model, nm) :
                    SourceOutput(heap, <<r, 0>>) = <<n, t.outputs[j][2]>>

\* the nodes of `among` lie between the parameters (or constants) and the
\* results, and no other parameter is in the graph
ScopedToBoundaries(among) ==
    /\ model.sinks = <<>>
    /\ \A n \in among :
        /\ n \in Closure(heap, Range(model.results))
        /\ \E m \in Closure(heap, {n}) :
            /\ heap[m].ins = <<>>
            /\ m \in Range(model.params) \/ heap[m].type = "Constant"
    /\ \A n \in GetOps(heap, model) :
        heap[n].type = "Parameter" => n \in Range(model.params)

(***************************************************************************)
(* C10, as claimed.  After model extraction with explicit input and output *)
(* boundaries the parameters are exactly those created or reused for the   *)
(* inputs, the results exactly those created for the outputs, every node   *)
(* of the returned graph lies on a path from one of these parameters or a  *)
(* constant to one of these results, and no node depends on a parameter    *)
(* that is not among the requested ones.                                   *)
(***************************************************************************)
ExtractionIsExactClosure ==
    Extracted =>
        LET t == LastCall.batch[Len(LastCall.batch)]
        IN  /\ ParametersAsRequested(t)
            /\ ResultsAsRequested(t)
            /\ ScopedToBoundaries(GetOps(heap, model))

(***************************************************************************)
(* C10, amended.  As claimed, except that a requested parameter is in the  *)
(* returned graph whether or not a result depends on it: every node other  *)
(* than the requested parameters lies on a path from one of them or a      *)
(* constant to one of the results.                                         *)
(***************************************************************************)
ExtractionIsClosureWithItsParameters ==
    Extracted =>
        LET t == LastCall.batch[Len(LastCall.batch)]
        IN  /\ ParametersAsRequested(t)
            /\ ResultsAsRequested(t)
            /\ ScopedToBoundaries(GetOps(heap, model) \ Range(model.params))

\* an extraction with two input boundaries and an output boundary has
\* returned, the last of two extraction commands being the one honoured
C10_ExtractedBetweenBoundaries ==
    /\ Extracted
    /\ Len(LastCall.batch) = 2
    /\ LastCall.batch[1] # LastCall.batch[2]
    /\ \E q \in Range(model.params) : q > Len(prev.heap)

(***************************************************************************)
(* C11.  Model extraction with no output boundaries returns a graph whose  *)
(* results are the results of the graph it was applied to, the same nodes  *)
(* in the same order, and creates no result node.                          *)
(***************************************************************************)
ExtractionWithoutOutputsKeepsResults ==
    (/\ Returned(6)
     /\ LastCall.batch[Len(LastCall.batch)].outputs = <<>>)
    => /\ model.results = prev.model.results
       /\ model.results # <<>>
       /\ \A r \in Range(model.results) :
            /\ heap[r].alive
            /\ NodeView(heap, r) = NodeView(prev.heap, r)
       /\ Created(prev.heap, "Result") = {}

\* an extraction with no output boundaries has returned a graph with the
\* two results of the graph it was given
C11_ExtractedWithoutOutputs ==
    /\ Returned(6)
    /\ LastCall.batch[Len(LastCall.batch)].outputs = <<>>
    /\ Len(prev.model.results) = 2
    /\ model.id # prev.model.id

(***************************************************************************)
(* Scale insertion.                                                        *)
(***************************************************************************)
\* between graphs h0 and h1 a multiply node named as t asks was spliced
\* after output t.port of node A, in front of the consumers t.dests names
MultiplySpliced(h0, h1, t, A) ==
    LET out == <<A, t.port>>
        before == TargetInputs(h0, out)
        D == {c \in before : h0[c[1]].name \in t.dests}
    IN  \E m \in (Len(h0) + 1)..Len(h1) :
            /\ h1[m].type = "Multiply"
            /\ h1[m].name = t.mname
            /\ SourceOutput(h1, <<m, 0>>) = out
            /\ TargetInputs(h1, <<m, 0>>) = D
            /\ \A c \in D : SourceOutput(h1, c) = <<m, 0>>
            /\ \A c \in before \ D : SourceOutput(h1, c) = out
            /\ TargetInputs(h1, out) = (before \ D) \cup {<<m, 0>>}

(***************************************************************************)
(* C12.  A scale insertion on output (A, p) with destination names D       *)
(* rebinds to the new multiply node exactly the consumer input ports of    *)
(* (A, p) whose node name is in D; every other consumer of (A, p) still    *)
(* reads (A, p), and the multiply node reads (A, p).  Stated of every      *)
(* command of a batch about to be applied, on the graph the commands       *)
(* before it leave, and of the graph a one-command batch returns: there a  *)
(* multiply node that no consumer was rebound to is no node of the graph,  *)
(* which is then the graph the applier was given.                          *)
(***************************************************************************)
MultiplyRebindsDestinationsOnly ==
    /\ (Returned(10) /\ Len(LastCall.batch) = 1) =>
            \E A \in Named(prev.heap, prev.model, LastCall.batch[1].name) :
                IF \E c \in TargetInputs(prev.heap, <<A, LastCall.batch[1].port>>) :
                        prev.heap[c[1]].name \in LastCall.batch[1].dests
                THEN MultiplySpliced(prev.heap, heap, LastCall.batch[1], A)
                ELSE View(heap, model) = View(prev.heap, prev.model)
    /\ Reached(10) =>
            \A k \in DOMAIN Bucket(10) :
                \A s \in FoldCmds(Enter(heap, model, Bucket(10)), SubSeq(Bucket(10), 1, k - 1)) :
                    s.err = Ok =>
                        \A o \in multiply_insertion_step(s, Bucket(10)[k]) :
                            o.err = Ok =>
                                MultiplySpliced(s.heap, o.heap, Bucket(10)[k],
                                                s.map[Bucket(10)[k].name])

\* a scale insertion has returned: one consumer of the output reads the
\* multiply node and another still reads the output
C12_MultiplySplicedBeforeOneConsumer ==
    /\ Returned(10)
    /\ Len(LastCall.batch) = 1
    /\ \E A \in Named(prev.heap, prev.model, LastCall.batch[1].name) :
        LET before == TargetInputs(prev.heap, <<A, LastCall.batch[1].port>>)
        IN  /\ \E c \in before : heap[SourceOutput(heap, c)[1]].type = "Multiply"
            /\ \E c \in before : SourceOutput(heap, c) = <<A, LastCall.batch[1].port>>

(***************************************************************************)
(* Last command wins.                                                      *)
(***************************************************************************)
\* the state is what one of the outcomes `outs` of the last applier leaves
LastOutcomeAmong(outs) ==
    \E o \in outs :
        IF o.err = Ok
        THEN /\ err = Ok
             /\ LastCall.returned = o.model.id
             /\ heap = Collect(o.heap, o.model)
             /\ model = o.model
        ELSE /\ err = o.err
             /\ LastCall.returned = 0
             /\ heap = o.heap

\* the last command of the batch of the last applier, as a batch
LastAlone == <<LastCall.batch[Len(LastCall.batch)]>>

(***************************************************************************)
(* C13.  For a batch of model-extraction commands, and for a batch of      *)
(* conditional-body-extraction commands, the applier does what it does on  *)
(* the batch of the last command alone: the same graph with the same nodes *)
(* created and ports rebound, or the same failure.  The commands before    *)
(* the last have no effect, whatever they address.                         *)
(***************************************************************************)
OnlyLastExtractionCommandHonoured ==
    /\ (calls # <<>> /\ LastCall.pos = 6) =>
            LastOutcomeAmong(apply_model_extraction_transformation(
                prev.heap, prev.model, LastAlone,
                IF err = Ok THEN nextId - 1 ELSE nextId))
    /\ (calls # <<>> /\ LastCall.pos = 12) =>
            LastOutcomeAmong(apply_extract_if_body_transformation(
                prev.heap, prev.model, LastAlone))

\* a batch of two different model-extraction commands has returned, the
\* first of which would fail alone
C13_SecondOfTwoExtractionsHonoured ==
    /\ Returned(6)
    /\ Len(LastCall.batch) = 2
    /\ LastCall.batch[1] # LastCall.batch[2]
    /\ \A o \in apply_model_extraction_transformation(
                    prev.heap, prev.model, <<LastCall.batch[1]>>, nextId) : o.err # Ok

(***************************************************************************)
(* C14.  If an applier fails during transform the whole call fails: no     *)
(* graph is returned, no applier later in the order is invoked, and the    *)
(* transformer's own graph is as it was; a graph is returned only when     *)
(* every applier invoked has returned.                                     *)
(***************************************************************************)
FailureAbortsTransform ==
    /\ \A k \in DOMAIN calls :
        calls[k].returned = 0 => k = Len(calls) /\ err # Ok
    /\ err # Ok =>
        /\ pc = "failed"
        /\ ret = NoModel
        /\ calls # <<>> /\ LastCall.returned = 0
        /\ View(heap, selfModel) = View(Origin.heap, Origin.model)
    /\ pc = "done" =>
        /\ err = Ok
        /\ ret = model
        /\ \A k \in DOMAIN calls : calls[k].returned # 0

\* an applier has failed while commands of a later kind were waiting
C14_FailedWithCommandsWaiting ==
    /\ pc = "failed"
    /\ err \in {"NodeNotFound", "ConstantNotFound", "MissingRequiredConsumer"}
    /\ \E j \in (LastCall.pos + 1)..Len(CommandOrder) : Bucket(j) # <<>>

(***************************************************************************)
(* Statistics.                                                             *)
(***************************************************************************)
\* some value of tensor x is further than the tolerance from its value in y
BeyondTolerance(x, y) ==
    \E i \in DOMAIN x.data.nd : Abs(x.data.nd[i] - y.data.nd[i]) > Tol

BothMinMax ==
    /\ stat.a.cls = "MinMaxTensorStatistic"
    /\ stat.b.cls = "MinMaxTensorStatistic"

(***************************************************************************)
(* C15.  A min/max statistic b loaded from the record dumped from a        *)
(* min/max statistic a, for whatever target node, compares equal to a      *)
(* (a == b gives True, and so does b == a); a min/max statistic whose min  *)
(* or max is further than the tolerance from that of a compares unequal.   *)
(***************************************************************************)
MinMaxRoundTripEqual ==
    /\ (stat.pc \in {"loaded", "compared_loaded"} /\ BothMinMax) =>
            /\ Eq(stat.a, stat.b) = True
            /\ Eq(stat.b, stat.a) = True
            /\ stat.pc = "compared_loaded" => stat.out = True
    /\ (/\ stat.pc = "compared"
        /\ BothMinMax
        /\ \/ BeyondTolerance(stat.a.f.min_values, stat.b.f.min_values)
           \/ BeyondTolerance(stat.a.f.max_values, stat.b.f.max_values))
        => stat.out = False

\* a min/max statistic with different min and max was dumped and loaded
\* into another, which then compared equal to it
C15_ReloadedComparedEqual ==
    /\ stat.pc = "compared_loaded"
    /\ BothMinMax
    /\ stat.a.f.min_values # stat.a.f.max_values
    /\ stat.out = True

(***************************************************************************)
(* C16, as claimed.  For each of the five statistic classes a statistic    *)
(* compares equal to a statistic of its class with the same payload, in    *)
(* particular to itself, and comparing statistics of two different classes *)
(* gives unequal and raises no error.                                      *)
(***************************************************************************)
EqualityByClassAndPayload ==
    stat.pc = "compared" =>
        /\ stat.a = stat.b => stat.out = True
        /\ stat.a.cls # stat.b.cls => stat.out = False


(***************************************************************************)
(* C17.  Extraction happens last: once the model-extraction applier has    *)
(* been invoked in a transform call, no other applier is invoked in that   *)
(* call, so nothing edits the graph after the extraction.                  *)
(***************************************************************************)
KindOfCall(k) == calls[k].batch[1].kind

BeforeExtraction ==
    {"OVFQNodeRemovingCommand", "OVQuantizerInsertionCommand",
     "OVConvertInsertionCommand", "OVBiasCorrectionCommand",
     "OVWeightUpdateCommand"}

AfterExtraction ==
    {"OVInplaceFnInsertionCommand", "OVOutputInsertionCommand",
     "OVBiasInsertionCommand", "OVMultiplyInsertionCommand",
     "OVUpdateIfBodyCommand", "OVExtractIfBodyCommand"}

ExtractionInvokedLast ==
    \A k \in DOMAIN calls :
        KindOfCall(k) = "OVModelExtractionCommand" => k = Len(calls)

(***************************************************************************)
(* C17, as the code has it.  The model-extraction applier is invoked after *)
(* the appliers of node removal, quantizer insertion, converter insertion, *)
(* bias correction and weight update, and before the appliers of in-place  *)
(* insertion, output insertion, bias insertion, scale insertion and the    *)
(* two conditional-body kinds; an applier of the second group works on the *)
(* graph the extraction returned.                                          *)
(***************************************************************************)
ExtractionInvokedSixth ==
    \A k \in DOMAIN calls :
        KindOfCall(k) = "OVModelExtractionCommand" =>
            /\ \A j \in 1..(k - 1) : KindOfCall(j) \in BeforeExtraction
            /\ \A j \in (k + 1)..Len(calls) : KindOfCall(j) \in AfterExtraction
            /\ k < Len(calls) => calls[k + 1].given = calls[k].returned
            /\ pc = "done" =>
                    \A c \in 1..Len(layout) :
                        \E j \in DOMAIN calls : KindOfCall(j) = layout[c].kind

\* an output was inserted into the graph the extraction returned
C17_OutputInsertedAfterExtraction ==
    /\ pc = "done"
    /\ Len(calls) = 2
    /\ KindOfCall(1) = "OVModelExtractionCommand"
    /\ KindOfCall(2) = "OVOutputInsertionCommand"
    /\ calls[2].returned # 0


(***************************************************************************)
(* C18.  A layout holds a quantizer insertion at the weights port (N, p)   *)
(* and a weight update at the same port.  The weight-update applier is     *)
(* given a graph in which the quantizer is already on the way from the     *)
(* weight constant to port p of N; with nothing but such commands in the   *)
(* layout the call returns; and in the graph returned the constant found   *)
(* from port p of N along the data inputs feeds input 0 of a quantizer    *)
(* inserted at a weights port (the one named after (N, p), or the one of a *)
(* port sharing the constant), holds the supplied value and has the name   *)
(* of the constant that was there at construction.                         *)
(***************************************************************************)
WeightsQuantized(q, w) ==
    /\ q.kind = "OVQuantizerInsertionCommand"
    /\ q.type = WEIGHTS
    /\ w.kind = "OVWeightUpdateCommand"
    /\ q.name = w.name
    /\ q.port = w.port

\* the constant of port p of node n: <<port that reads it, constant>>
ConstOf(h, n, p) == find_const(h, <<n, p>>, SourceOutput(h, <<n, p>>)[1])

QuantizedWeightAt(h, n, t) ==
    LET found == ConstOf(h, n, t.port)
        fq == found[1][1]
    IN  /\ found # NotFound
        /\ h[fq].type = "FakeQuantize"
        /\ \E c \in DOMAIN layout :
                /\ layout[c].kind = "OVQuantizerInsertionCommand"
                /\ layout[c].type = WEIGHTS
                /\ h[fq].name = Derive(layout[c].name, "fq_weights", layout[c].port)
        /\ found[1][2] = 0
        /\ fq # n

WeightUpdateSeesQuantizer ==
    \A a, b \in DOMAIN layout :
        LET q == layout[a]
            w == layout[b]
        IN  WeightsQuantized(q, w) =>
                /\ Returned(5) \/ Raised(5, err) =>
                        \A n \in Named(prev.heap, prev.model, w.name) :
                            QuantizedWeightAt(prev.heap, n, w)
                /\ (Finished /\ \A c \in DOMAIN layout : layout[c] \in {q, w}) =>
                        pc = "done"
                /\ pc = "done" =>
                        \A n \in Named(heap, model, w.name) :
                            /\ QuantizedWeightAt(heap, n, w)
                            /\ heap[ConstOf(heap, n, w.port)[2]].val = w.val
                            /\ \A n0 \in Named(Origin.heap, Origin.model, w.name) :
                                    heap[ConstOf(heap, n, w.port)[2]].name =
                                        Origin.heap[ConstOf(Origin.heap, n0, w.port)[2]].name

\* a quantizer insertion and a weight update at one weights port have both
\* been applied, and the node is in the graph returned
C18_QuantizedWeightUpdated ==
    /\ pc = "done"
    /\ \E a, b \in DOMAIN layout :
            /\ WeightsQuantized(layout[a], layout[b])
            /\ Named(heap, model, layout[b].name) # {}
            /\ \E n \in Named(Origin.heap, Origin.model, layout[b].name) :
                    Origin.heap[ConstOf(Origin.heap, n, layout[b].port)[2]].val # layout[b].val


(***************************************************************************)
(* Splicing a node after an output.                                        *)
(***************************************************************************)
\* between graphs h0 and h1 a node of the given type was built last and
\* spliced between output `out` and all the consumers it had in h0
SplicedAfter(h0, h1, out, type) ==
    LET m == Len(h1)
        before == TargetInputs(h0, out)
    IN  /\ m > Len(h0)
        /\ h1[m].type = type
        /\ SourceOutput(h1, <<m, 0>>) = out
        /\ TargetInputs(h1, out) = {<<m, 0>>}
        /\ TargetInputs(h1, <<m, 0>>) = before
        /\ \A c \in before : SourceOutput(h1, c) = <<m, 0>>
        /\ \A c \in TargetInputs(h1, <<m, 0>>) : c[1] # m

\* the type of the node the applier at position i of the order builds
SplicedType(i) ==
    CASE i = 2 -> "FakeQuantize"
      [] i = 3 -> "FakeConvert"
      [] i = 9 -> "Add"

\* the commands of the three appliers that insert after an output
SplicesAfterOutput(i, t) == i = 9 \/ t.type = POST

(***************************************************************************)
(* C19.  After a quantizer or converter insertion at a POST target point   *)
(* (N, p), and after a bias insertion at (N, p), the new node is the only  *)
(* consumer of output p of N, the consumers of the new node's output are   *)
(* exactly the input ports that consumed output p of N before the command, *)
(* and the new node does not consume its own output.  Stated of every such *)
(* command of a batch about to be applied, on the graph the commands       *)
(* before it leave.                                                        *)
(***************************************************************************)
PostInsertionSplices ==
    \A i \in {2, 3, 9} :
        Reached(i) =>
            \A k \in DOMAIN Bucket(i) :
                SplicesAfterOutput(i, Bucket(i)[k]) =>
                    \A s \in FoldCmds(Enter(heap, model, Bucket(i)), SubSeq(Bucket(i), 1, k - 1)) :
                        s.err = Ok =>
                            \A o \in loop_body(s, Bucket(i)[k]) :
                                o.err = Ok =>
                                    SplicedAfter(s.heap, o.heap,
                                                 <<s.map[Bucket(i)[k].name], Bucket(i)[k].port>>,
                                                 SplicedType(i))

\* an applier has returned from one insertion after an output that had two
\* consumers: both now read the node built, which alone reads the output
C19_SplicedBeforeTwoConsumers ==
    \E i \in {2, 3, 9} :
        /\ Returned(i)
        /\ Len(LastCall.batch) = 1
        /\ SplicesAfterOutput(i, LastCall.batch[1])
        /\ \E N \in Named(prev.heap, prev.model, LastCall.batch[1].name) :
                LET out == <<N, LastCall.batch[1].port>>
                    before == TargetInputs(prev.heap, out)
                IN  /\ Cardinality(before) >= 2
                    /\ \A c \in before : heap[c[1]].alive
                    /\ Cardinality(TargetInputs(heap, out)) = 1
                    /\ \A c \in before :
                            /\ <<SourceOutput(heap, c)[1], 0>> \in TargetInputs(heap, out)
                            /\ heap[SourceOutput(heap, c)[1]].type = SplicedType(i)


(***************************************************************************)
(* Node removal.                                                           *)
(***************************************************************************)
\* the input ports that consume an output of node N
ConsumersOf(h, N) == UNION {TargetInputs(h, <<N, p>>) : p \in OutputPorts(h, N)}

\* between graphs h0 and h1 node N was bypassed: its consumers read the
\* source of its input 0, nothing reads N, N is no node a result of model m
\* depends on, and every other input port reads what it read
Bypassed(h0, h1, N, m) ==
    LET src == SourceOutput(h0, <<N, 0>>)
        consumers == ConsumersOf(h0, N)
    IN  /\ Len(h1) = Len(h0)
        /\ \A c \in consumers : SourceOutput(h1, c) = src
        /\ consumers \subseteq TargetInputs(h1, src)
        /\ ConsumersOf(h1, N) = {}
        /\ N \notin Closure(h1, Range(m.results))
        /\ \A n \in 1..Len(h0) :
                h0[n].alive =>
                    \A i \in InputPorts(h0, n) :
                        <<n, i>> \notin consumers =>
                            SourceOutput(h1, <<n, i>>) = SourceOutput(h0, <<n, i>>)

ConstantSwapped(h0, m0, n, p, v) ==
    LET old == ConstOf(h0, n, p)[2]
        same == {c \in GetOps(heap, model) :
                    heap[c].type = "Constant" /\ heap[c].name = h0[old].name}
    IN  /\ Cardinality(same) = 1
        /\ \A c \in same :
                /\ c > Len(h0)
                /\ heap[c].val = v
                /\ heap[c].shape = h0[old].shape
                /\ heap[c].et = h0[old].et
        /\ old \notin GetOps(heap, model)
        /\ Cardinality(GetOps(heap, model)) = Cardinality(GetOps(h0, m0))

(***************************************************************************)
(* C21.  After a weight-update or bias-correction command has succeeded,   *)
(* on any graph, also one whose constant feeds several consumers, the      *)
(* graph holds exactly one constant node with the replaced constant's      *)
(* name, the new one, which has the supplied value and the old shape and   *)
(* element type; the old constant is no node of the graph and the number   *)
(* of nodes is unchanged.  Stated of one-command batches.                  *)
(***************************************************************************)
ConstantReplacedNotAdded ==
    /\ (Returned(5) /\ Len(LastCall.batch) = 1) =>
            \A n \in Named(prev.heap, prev.model, LastCall.batch[1].name) :
                ConstantSwapped(prev.heap, prev.model, n,
                                LastCall.batch[1].port, LastCall.batch[1].val)
    /\ (Returned(4) /\ Len(LastCall.batch) = 1) =>
            \E a \in AddConsumers(prev.heap, prev.model, LastCall.batch[1]) :
                ConstantSwapped(prev.heap, prev.model, a,
                                LastCall.batch[1].port, LastCall.batch[1].val)


(***************************************************************************)
(* The constant resolver.                                                  *)
(***************************************************************************)
RECURSIVE ChainPort(_, _, _)
\* the input port reached from `port` in at most k steps back, a step going
\* from a port to input 0 of the node it reads; no step is taken from a
\* port that reads a constant or a node without inputs
ChainPort(h, port, k) ==
    LET node == SourceOutput(h, port)[1]
    IN  IF k = 0 \/ h[node].type = "Constant" \/ Len(h[node].ins) = 0 THEN port
        ELSE ChainPort(h, <<node, 0>>, k - 1)

\* the port the way back from `port` stops at, and the node it reads
ChainEnd(h, port) == ChainPort(h, port, Len(h))

ChainEndNode(h, port) == SourceOutput(h, ChainEnd(h, port))[1]

\* the input ports of graph h1 that read another output than in graph h0
Rebound(h0, h1) ==
    {q \in UNION {{<<n, i>> : i \in InputPorts(h0, n)} : n \in 1..Len(h0)} :
        SourceOutput(h1, q) # SourceOutput(h0, q)}

\* the outcome o of a constant replacement started at port `port` of graph h
Resolved(h, port, o) ==
    LET end == ChainEnd(h, port)
        node == ChainEndNode(h, port)
    IN  /\ o.err \in {Ok, "ValueError", "ConstantNotFound"}
        /\ o.err = "ConstantNotFound" <=>
                (h[node].type # "Constant" /\ Len(h[node].ins) = 0)
        /\ o.err # Ok => o.heap = h
        /\ o.err = Ok =>
                /\ h[node].type = "Constant"
                /\ Rebound(h, o.heap) = {end}
                /\ SourceOutput(o.heap, end)[1] > Len(h)
                /\ o.heap[SourceOutput(o.heap, end)[1]].name = h[node].name

(***************************************************************************)
(* C22.  The constant resolver started at input port (N, p) terminates; it *)
(* follows the source of port p and then only input 0 of each node,        *)
(* succeeds with the first constant on that way, and fails with            *)
(* ConstantNotFound exactly when the way reaches a node without inputs     *)
(* that is no constant; when it fails no port has been rebound.  Stated of *)
(* every weight-update and bias-correction command of a batch about to be  *)
(* applied, on the graph the commands before it leave.                     *)
(***************************************************************************)
ResolverFollowsFirstInputs ==
    \A i \in {4, 5} :
        Reached(i) =>
            \A k \in DOMAIN Bucket(i) :
                \A s \in FoldCmds(Enter(heap, model, Bucket(i)), SubSeq(Bucket(i), 1, k - 1)) :
                    LET t == Bucket(i)[k]
                        starts == IF i = 5 THEN {s.map[t.name]}
                                  ELSE ConsumersOfType(s.heap, <<s.map[t.name], 0>>, "Add")
                    IN  (s.err = Ok /\ t.name \in DOMAIN s.map) =>
                            \A o \in loop_body(s, t) :
                                o.err \notin {"MissingRequiredConsumer", "PortOutOfRange"} =>
                                    \E n \in starts : Resolved(s.heap, <<n, t.port>>, o)

\* a weight update has failed with ConstantNotFound at a port whose way
\* back passes a node that reads a constant on another input than input 0
C22_ConstantOffTheWayNotFound ==
    /\ Raised(5, "ConstantNotFound")
    /\ Len(LastCall.batch) = 1
    /\ \E n \in Named(prev.heap, prev.model, LastCall.batch[1].name) :
            LET via == SourceOutput(prev.heap, <<n, LastCall.batch[1].port>>)[1]
            IN  \E i \in InputPorts(prev.heap, via) :
                    prev.heap[SourceOutput(prev.heap, <<via, i>>)[1]].type = "Constant"


(***************************************************************************)
(* C23.  A bias-correction command on node N fails with the                *)
(* missing-required-consumer error exactly when no consumer of output 0 of *)
(* N is an additive node, and then the command has replaced no constant;   *)
(* when exactly one additive consumer exists the constant resolver runs on *)
(* the input port of that node given by the command's port id.  Stated of  *)
(* every command of a batch about to be applied, on the graph the commands *)
(* before it leave.                                                        *)
(***************************************************************************)
BiasCorrectionNeedsAddConsumer ==
    Reached(4) =>
        \A k \in DOMAIN Bucket(4) :
            \A s \in FoldCmds(Enter(heap, model, Bucket(4)), SubSeq(Bucket(4), 1, k - 1)) :
                LET t == Bucket(4)[k]
                    N == s.map[t.name]
                    adds == {c[1] : c \in {d \in TargetInputs(s.heap, <<N, 0>>)
                                                : s.heap[d[1]].type = "Add"}}
                IN  (s.err = Ok /\ t.name \in DOMAIN s.map) =>
                        \A o \in bias_correction_step(s, t) :
                            /\ o.err = "MissingRequiredConsumer" <=> adds = {}
                            /\ o.err = "MissingRequiredConsumer" => o.heap = s.heap
                            /\ Cardinality(adds) = 1 =>
                                    \A a \in adds :
                                        /\ t.port \in InputPorts(s.heap, a)
                                        /\ Resolved(s.heap, <<a, t.port>>, o)

\* a bias correction has failed at a node that has a consumer, none of them
\* additive, and the graph is as it was given
C23_NoAddConsumerFailed ==
    /\ Raised(4, "MissingRequiredConsumer")
    /\ \E n \in Named(prev.heap, prev.model, LastCall.batch[Len(LastCall.batch)].name) :
            TargetInputs(prev.heap, <<n, 0>>) # {}
    /\ View(heap, model) = View(prev.heap, prev.model)


(***************************************************************************)
(* Target-point types.                                                     *)
(***************************************************************************)
\* the command's target-point type is not one its kind works on
InvalidTypeFor(c) ==
    \/ /\ c.kind \in {"OVQuantizerInsertionCommand", "OVConvertInsertionCommand",
                      "OVOutputInsertionCommand", "OVInplaceFnInsertionCommand"}
       /\ c.type \notin {PRE, POST, WEIGHTS}
    \/ /\ c.kind \in {"OVBiasInsertionCommand", "OVMultiplyInsertionCommand"}
       /\ c.type \in {PRE, WEIGHTS}

(***************************************************************************)
(* C24.  A command whose target-point type is not valid for its kind makes *)
(* transform fail with an unsupported-target-point error instead of        *)
(* editing the graph: a type outside PRE, POST and WEIGHTS for quantizer,  *)
(* converter, output and in-place insertion, and PRE or WEIGHTS for bias   *)
(* insertion and scale insertion.  No applier returns from a batch that    *)
(* holds such a command, and a batch of one such command at a node of the  *)
(* graph fails with that error.                                            *)
(***************************************************************************)
InvalidTargetTypeRejected ==
    \A k \in DOMAIN calls :
        (\E c \in DOMAIN calls[k].batch : InvalidTypeFor(calls[k].batch[c])) =>
            /\ calls[k].returned = 0
            /\ pc = "failed"
            /\ ( /\ Len(calls[k].batch) = 1
                 /\ Named(prev.heap, prev.model, calls[k].batch[1].name) # {} ) =>
                    err = "UnsupportedTargetPoint"


(***************************************************************************)
(* C25.  After an output-insertion batch of n commands the results of the  *)
(* graph are the results it had, in the same order, followed by n new      *)
(* result nodes, one per command in the order submitted; the new result of *)
(* a POST command at (N, p) reads output p of N, that of a PRE or weights  *)
(* command at (N, p) reads the source of input p of N; the parameters are  *)
(* the same and every assignment node of the graph before the batch is a   *)
(* sink of the graph after it.                                             *)
(***************************************************************************)
OutputsAppendedInOrder ==
    Returned(8) =>
        LET batch == LastCall.batch
            h0 == prev.heap
            old == prev.model.results
        IN  /\ Len(model.results) = Len(old) + Len(batch)
            /\ SubSeq(model.results, 1, Len(old)) = old
            /\ \A k \in DOMAIN batch :
                    LET r == model.results[Len(old) + k]
                        t == batch[k]
                    IN  /\ r > Len(h0)
                        /\ heap[r].type = "Result"
                        /\ \E N \in Named(h0, prev.model, t.name) :
                                SourceOutput(heap, <<r, 0>>) =
                                    IF t.type = POST THEN <<N, t.port>>
                                    ELSE SourceOutput(h0, <<N, t.port>>)
            /\ \A k1, k2 \in DOMAIN model.results :
                    k1 # k2 => model.results[k1] # model.results[k2]
            /\ model.params = prev.model.params
            /\ {n \in GetOps(h0, prev.model) : h0[n].type = "Assign"} \subseteq Range(model.sinks)

\* two outputs were inserted by one batch, one at an output and one at an
\* input, into a graph that has a result and an assignment node
C25_TwoOutputsInserted ==
    /\ Returned(8)
    /\ Len(LastCall.batch) = 2
    /\ LastCall.batch[1].type = POST
    /\ LastCall.batch[2].type = PRE
    /\ Len(prev.model.results) >= 1
    /\ \E n \in GetOps(prev.heap, prev.model) : prev.heap[n].type = "Assign"
    /\ Len(model.results) = Len(prev.model.results) + 2


(***************************************************************************)
(* Input boundaries of an extraction.                                      *)
(***************************************************************************)
\* graph (h1, m1) is graph (h0, m0) cut at the input boundaries of command t
CutAtInputs(h0, m0, h1, m1, t) ==
    LET B == t.inputs
        node(j) == CHOOSE n \in Named(h0, m0, B[j][1]) : TRUE
        reused(j) == node(j) \in Range(m0.params)
        cut == {<<node(j), B[j][2]>> : j \in {i \in DOMAIN B : ~reused(i)}}
    IN  /\ Len(m1.params) = Len(B)
        /\ \A j \in DOMAIN B :
                LET q == m1.params[j]
                    port == <<node(j), B[j][2]>>
                IN  IF reused(j) THEN q = node(j)
                    ELSE LET src == SourceOutput(h0, port)
                         IN  /\ q > Len(h0)
                             /\ h1[q].type = "Parameter"
                             /\ h1[q].et = h0[src[1]].et
                             /\ h1[q].shape = h0[src[1]].shape
                             /\ SourceOutput(h1, port) = <<q, 0>>
                             /\ TargetInputs(h1, <<q, 0>>) = {port}
                             /\ TargetInputs(h1, src) = TargetInputs(h0, src) \ cut
        /\ Rebound(h0, h1) = cut

(***************************************************************************)
(* C26.  In model extraction, for each input boundary (N, p) whose node is *)
(* no parameter of the graph, exactly input port p of N is rebound to a    *)
(* newly created parameter that has the element type and shape of the      *)
(* port's previous source output, and every other consumer of that output  *)
(* keeps reading it; for an input boundary whose node is a parameter of    *)
(* the graph that node is used and no port is rebound; the parameters of   *)
(* the graph returned are these nodes in the order of the boundaries.      *)
(* Stated of the graph the applier builds from the graph it is given.      *)
(***************************************************************************)
ExtractionCutsAtInputPorts ==
    Reached(6) =>
        LET r == Refresh(heap, model)
            t == Bucket(6)[Len(Bucket(6))]
        IN  \A o \in apply_model_extraction_transformation(heap, model, Bucket(6), nextId) :
                o.err = Ok => CutAtInputs(r.heap, r.model, o.heap, o.model, t)

\* an extraction has returned a graph cut at an input port whose source
\* had another consumer
C26_CutAtSharedSource ==
    /\ Returned(6)
    /\ \E b \in Range(LastCall.batch[Len(LastCall.batch)].inputs) :
            \E N \in Named(prev.heap, prev.model, b[1]) :
                /\ N \notin Range(prev.model.params)
                /\ Cardinality(TargetInputs(prev.heap, SourceOutput(prev.heap, <<N, b[2]>>))) >= 2
                /\ heap[SourceOutput(heap, <<N, b[2]>>)[1]].type = "Parameter"
                /\ SourceOutput(heap, <<N, b[2]>>)[1] \in Range(model.params)

(***************************************************************************)
(* A second call of transform on the same transformer.  The transformer    *)
(* keeps nothing of a call but self._model, so the second call starts as   *)
(* the first one did, from a clone of self._model, whether the first call  *)
(* returned or raised.  The first entry of calls then records the layout   *)
(* of the first call and what the caller saw of its outcome.  The two      *)
(* layouts have at most MaxLayout commands between them.                   *)
(***************************************************************************)
FirstCallOver ==
    /\ Finished
    /\ \A k \in DOMAIN calls : calls[k].pos # 0

\* what the caller has seen of the call that has just finished
Seen ==
    OutcomeView([heap |-> heap, model |-> IF pc = "done" THEN ret ELSE NoModel, err |-> err])

\* a mutant: the second call works on a clone of the graph the first call
\* returned
TransformAgainOnReturned ==
    /\ FirstCallOver
    /\ LET c == Clone(heap, IF pc = "done" THEN ret ELSE selfModel, nextId)
       IN  /\ heap' = c.heap
           /\ model' = c.model
           /\ nextId' = c.nextId
    /\ idx' = 1
    /\ pc' = "loop"
    /\ ret' = NoModel
    /\ err' = Ok
    /\ calls' = <<[pos |-> 0, batch |-> layout, given |-> selfModel.id, returned |-> 0,
                   first |-> Seen]>>
    /\ UNCHANGED <<selfModel, prev, stat>>
    /\ layout' \in {L \in Layouts(CommandsFor(heap)) : Len(layout) + Len(L) <= MaxLayout}

\* transform, lines 123-128, called once more on the same transformer
TransformAgain ==
    /\ FirstCallOver
    /\ LET c == Clone(heap, selfModel, nextId)
       IN  /\ heap' = c.heap
           /\ model' = c.model
           /\ nextId' = c.nextId
    /\ idx' = 1
    /\ pc' = "loop"
    /\ ret' = NoModel
    /\ err' = Ok
    /\ calls' = <<[pos |-> 0, batch |-> layout, given |-> selfModel.id, returned |-> 0,
                   first |-> Seen]>>
    /\ UNCHANGED <<selfModel, prev, stat>>
    /\ layout' \in {L \in Layouts(CommandsFor(heap)) : Len(layout) + Len(L) <= MaxLayout}

NextTwice ==
    \/ Next
    \/ TransformAgain

SpecTwice == Init /\ [][NextTwice]_vars

\* the second call has finished
SecondCallOver ==
    /\ Finished
    /\ calls # <<>>
    /\ calls[1].pos = 0

(***************************************************************************)
(* C27.  When a second call of transform on one transformer has finished,  *)
(* what it returned or raised is the one outcome that transform has for    *)
(* its layout on a transformer newly built on the original graph, whatever *)
(* the layout of the first call was and whether that call returned or      *)
(* raised; and when both calls were given the same layout, the two         *)
(* outcomes are structurally equal.                                        *)
(***************************************************************************)
CallsAreIndependent ==
    SecondCallOver =>
        /\ Outcomes(layout) = {Seen}
        /\ calls[1].batch = layout => calls[1].first = Seen

\* a second call has returned a graph that differs from the graph the first
\* call returned, both calls having edited their clones
C27_SecondCallReturnedOtherGraph ==
    /\ SecondCallOver
    /\ pc = "done"
    /\ Len(calls) >= 2
    /\ calls[1].batch # <<>>
    /\ calls[1].first.err = Ok
    /\ calls[1].first # Seen
    /\ calls[1].first # OutcomeView([heap |-> heap, model |-> selfModel, err |-> Ok])

\* the commands of a batch of conditional-body updates that address branch
\* b of the node named nm, in the order of submission
UpdatesOf(batch, nm, b) == SelectSeq(batch, LAMBDA t : t.name = nm /\ t.port = b)

\* the branch index a conditional-body extraction command asks for
BranchOf(e) == IF e.cond THEN 0 ELSE 1

\* after the update applier: every branch of every conditional node holds
\* the sub-graph of the last update submitted for it, and the sub-graph it
\* held before when no update addresses it
BranchesAsLastUpdated ==
    \A N \in {n \in GetOps(heap, model) : heap[n].type = "If"} :
        \A b \in {0, 1} :
            LET ups == UpdatesOf(LastCall.batch, heap[N].name, b)
            IN  heap[N].bodies[b + 1] =
                    IF ups # <<>> THEN ups[Len(ups)].body ELSE prev.heap[N].bodies[b + 1]

\* the layout updates the branch its last extraction command asks for
RoundTripAsked ==
    /\ Bucket(12) # <<>>
    /\ LET e == Bucket(12)[Len(Bucket(12))]
       IN  UpdatesOf(Bucket(11), e.name, BranchOf(e)) # <<>>

(***************************************************************************)
(* C28.  When the update applier has returned, every branch of every       *)
(* conditional node holds the sub-graph of the last update command the     *)
(* layout has for that branch of that node, and a branch no update         *)
(* addresses holds what it held before.  When transform returns for a      *)
(* layout whose last conditional-body extraction command asks for branch b *)
(* of node N (b = 0 for the true branch, 1 for the false branch) and which *)
(* has an update for branch b of N, the graph returned is the sub-graph of *)
(* the last such update.                                                   *)
(***************************************************************************)
UpdateThenExtractRoundTrip ==
    /\ Returned(11) => BranchesAsLastUpdated
    /\ (pc = "done" /\ RoundTripAsked) =>
            LET e == Bucket(12)[Len(Bucket(12))]
                ups == UpdatesOf(Bucket(11), e.name, BranchOf(e))
            IN  ret = BodyModel(ups[Len(ups)].body)

\* transform has returned the sub-graph that the layout installed as the
\* true branch, which the conditional node did not hold at construction
C28_InstalledBodyExtracted ==
    /\ pc = "done"
    /\ RoundTripAsked
    /\ Bucket(12)[Len(Bucket(12))].cond
    /\ \A n \in GetOps(heap, selfModel) :
            \A k \in DOMAIN heap[n].bodies : heap[n].bodies[k].g # ret.g

\* the update applier has returned after two updates of one branch with
\* different sub-graphs
C28_SecondUpdateOfBranchWon ==
    /\ Returned(11)
    /\ Len(LastCall.batch) = 2
    /\ LastCall.batch[1].name = LastCall.batch[2].name
    /\ LastCall.batch[1].port = LastCall.batch[2].port
    /\ LastCall.batch[1].body # LastCall.batch[2].body

(***************************************************************************)
(* C29.  The type tag of a dumped record is the name of the class of the   *)
(* statistic that dumped it, so the record of a min/max statistic and the  *)
(* record of a mean statistic carry different tags.                        *)
(***************************************************************************)
TypeTagNamesTheStatistic ==
    stat.rec # NoRecord => stat.rec.type = stat.a.cls

====
